---------------------------- MODULE Spec2Model ----------------------------
(***************************************************************************)
(* Notion content retrieval of ScribeAgent.                                *)
(*                                                                         *)
(* Spec        : NotionAPIPageRepository / NotionAPIDatabaseRepository     *)
(*               running against a transport client whose responses are    *)
(*               chosen by the environment (as a stubbed api_client does). *)
(* SpecService : NotionPageService running against the PageRepository port *)
(*               and the real NotionAPIUrlParser.                          *)
(***************************************************************************)
EXTENDS Integers, Sequences, FiniteSets, TLC

\* ------------------------------------------------------------------ bounds
\* transport calls issued in one run of a repository operation
MaxCalls == 3
\* largest max_depth a repository is constructed with
MaxDepthBound == 2

\* Python's None
None == "None"

\* ------------------------------------------------------------- enumerations
\* enums.py BlockType: the values the enumeration accepts
BlockTypeValues ==
    { "paragraph", "heading_1", "heading_2", "heading_3",
      "bulleted_list_item", "numbered_list_item", "to_do", "toggle", "code",
      "child_page", "child_database", "embed", "image", "video", "file",
      "pdf", "bookmark", "callout", "quote", "equation", "divider",
      "table_of_contents", "column", "column_list", "link_preview",
      "synced_block", "template", "link_to_page", "table", "table_row",
      "unsupported" }

\* enums.py PropertyType: the values the enumeration accepts
PropertyTypeValues ==
    { "title", "rich_text", "number", "select", "multi_select", "date",
      "people", "files", "checkbox", "url", "email", "phone_number",
      "formula", "relation", "rollup", "created_time", "created_by",
      "last_edited_time", "last_edited_by", "status" }

\* subclasses of TextBlock in entities.py
TextBlockClasses ==
    { "ParagraphBlock", "HeadingBlock", "BulletedListItemBlock",
      "NumberedListItemBlock", "ToDoBlock" }

\* ------------------------------------------------------------ wire formats
\* one block object of a children response
WireBlock(id, type, hc) == [id |-> id, type |-> type, has_children |-> hc]

\* the "results" arrays a children response may carry
BlockResultLists ==
    { << >>,
      << WireBlock("b1", "paragraph", TRUE) >>,
      << WireBlock("b2", "heading_2", FALSE) >>,
      << WireBlock("b1", "to_do", TRUE), WireBlock("b2", "paragraph", TRUE) >>,
      << WireBlock("b2", "code", FALSE), WireBlock("b2", "paragraph", TRUE) >>,
      << WireBlock("b2", "some_future_block", FALSE) >> }

\* the "properties" of a page object, as the list of its type tags
PropertyTagLists ==
    { << >>, << "title" >>, << "title", "checkbox" >>, << "rich_text" >>,
      << "title", "multi_select" >>, << "unique_id" >> }

WirePage(id, tags) == [id |-> id, properties |-> tags]

\* the "results" arrays a database query response may carry
PageResultLists ==
    { << >> } \cup { << WirePage("pg1", t) >> : t \in PropertyTagLists }
      \cup { << WirePage("pg1", << "title" >>), WirePage("pg2", << >>) >> }

\* opaque cursors the remote hands out
Cursors == { "c1", "c2" }

\* has_more / next_cursor of a paginated response; a response may say
\* has_more without carrying a next_cursor (response.get gives None)
PageMarks ==
    { [has_more |-> FALSE, next_cursor |-> None] }
      \cup { [has_more |-> TRUE, next_cursor |-> c] : c \in Cursors \cup { None } }

\* ------------------------------------------------------ domain model mapping
Raised(e) == [raised |-> TRUE, error |-> e]
Value(v) == [raised |-> FALSE, value |-> v]

\* a Block entity; children_set counts the assignments to block.children
BlockEntity(cls, data, block_type) ==
    [ id |-> data.id, cls |-> cls, block_type |-> block_type,
      has_children |-> data.has_children,
      children |-> << >>, children_set |-> 0 ]

\* Block.from_api
BlockFromApi(data) ==
    IF data.type \notin BlockTypeValues THEN Raised("ValueError")
    ELSE IF data.type = "paragraph"
         THEN Value(BlockEntity("ParagraphBlock", data, "paragraph"))
    ELSE IF data.type \in { "heading_1", "heading_2", "heading_3" }
         THEN Value(BlockEntity("HeadingBlock", data, data.type))
    ELSE IF data.type = "bulleted_list_item"
         THEN Value(BlockEntity("BulletedListItemBlock", data, "bulleted_list_item"))
    ELSE IF data.type = "numbered_list_item"
         THEN Value(BlockEntity("NumberedListItemBlock", data, "numbered_list_item"))
    ELSE IF data.type = "to_do"
         THEN Value(BlockEntity("ToDoBlock", data, "to_do"))
    ELSE Value(BlockEntity("Block", data, data.type))

\* PropertyValue.from_api, on the type tag of one property
PropertyValueFromApi(tag) ==
    IF tag \notin PropertyTypeValues THEN Raised("NotImplementedError")
    ELSE IF tag = "title"
         THEN Value([cls |-> "TitlePropertyValue", type |-> "title"])
    ELSE IF tag = "rich_text"
         THEN Value([cls |-> "RichTextPropertyValue", type |-> "rich_text"])
    ELSE IF tag = "checkbox"
         THEN Value([cls |-> "CheckboxPropertyValue", type |-> "checkbox"])
    ELSE Raised("NotImplementedError")

\* the loop of Page.from_api over raw_properties, in dictionary order
RECURSIVE MapProperties(_)
MapProperties(tags) ==
    IF tags = << >> THEN Value(<< >>)
    ELSE LET h == PropertyValueFromApi(Head(tags))
         IN  IF h.raised THEN h
             ELSE LET t == MapProperties(Tail(tags))
                  IN  IF t.raised THEN t
                      ELSE Value(<< h.value >> \o t.value)

\* Page.from_api
PageFromApi(data) ==
    LET ps == MapProperties(data.properties)
    IN  IF ps.raised THEN ps
        ELSE Value([id |-> data.id, properties |-> ps.value])


\* ------------------------------------------------------------------ strings
\* a Python str is the sequence of its characters
LowerLetters ==
    << "a", "b", "c", "d", "e", "f", "g", "h", "i", "j", "k", "l", "m",
       "n", "o", "p", "q", "r", "s", "t", "u", "v", "w", "x", "y", "z" >>
UpperLetters ==
    << "A", "B", "C", "D", "E", "F", "G", "H", "I", "J", "K", "L", "M",
       "N", "O", "P", "Q", "R", "S", "T", "U", "V", "W", "X", "Y", "Z" >>
Digits == { "0", "1", "2", "3", "4", "5", "6", "7", "8", "9" }
Range(f) == { f[x] : x \in DOMAIN f }

\* str.lower, character by character
LowerChar(c) ==
    IF c \in Range(UpperLetters)
    THEN LowerLetters[CHOOSE i \in DOMAIN UpperLetters : UpperLetters[i] = c]
    ELSE c
Lower(s) == [i \in DOMAIN s |-> LowerChar(s[i])]

\* s[a:b] with 1-based inclusive bounds
Slice(s, a, b) == IF a > b THEN << >> ELSE SubSeq(s, a, b)

\* sub in s
Contains(sub, s) ==
    \E i \in 1..(Len(s) - Len(sub) + 1) : Slice(s, i, i + Len(sub) - 1) = sub

\* the first position at or after from where s has a character of cs, or
\* Len(s) + 1 when there is none
FirstOf(s, cs, from) ==
    IF \E i \in from..Len(s) : s[i] \in cs
    THEN CHOOSE i \in from..Len(s) :
            s[i] \in cs /\ \A j \in from..(i - 1) : s[j] \notin cs
    ELSE Len(s) + 1

\* the first occurrence of c in s, 0 when there is none (variant of LastOf)
LastOf_First(s, c) ==
    LET i == FirstOf(s, { c }, 1) IN IF i > Len(s) THEN 0 ELSE i


\* the last position where s has the character c, or 0
LastOf(s, c) ==
    IF \E i \in DOMAIN s : s[i] = c
    THEN CHOOSE i \in DOMAIN s : s[i] = c /\ \A j \in (i + 1)..Len(s) : s[j] # c
    ELSE 0

\* s.strip(c)
RECURSIVE Strip(_, _)
Strip(s, c) ==
    IF s = << >> THEN s
    ELSE IF Head(s) = c THEN Strip(Tail(s), c)
    ELSE IF s[Len(s)] = c THEN Strip(Slice(s, 1, Len(s) - 1), c)
    ELSE s

\* ------------------------------------------------------ NotionAPIUrlParser
\* urllib.parse: the characters a scheme may consist of
SchemeChars ==
    Range(LowerLetters) \cup Range(UpperLetters) \cup Digits \cup { "+", "-", "." }

\* urllib.parse.urlparse, restricted to what extract_id_from_url reads:
\* the scheme is split off at the first ":", the netloc follows "//" and ends
\* before the first of "/", "?", "#"; fragment and query are cut from the path
UrlParse(url) ==
    LET colon == FirstOf(url, { ":" }, 1)
        hasScheme == /\ colon <= Len(url) /\ colon > 1
                     /\ url[1] \in Range(LowerLetters) \cup Range(UpperLetters)
                     /\ \A i \in 1..(colon - 1) : url[i] \in SchemeChars
        rest == IF hasScheme THEN Slice(url, colon + 1, Len(url)) ELSE url
        hasNetloc == Len(rest) >= 2 /\ rest[1] = "/" /\ rest[2] = "/"
        delim == FirstOf(rest, { "/", "?", "#" }, 3)
        netloc == IF hasNetloc THEN Slice(rest, 3, delim - 1) ELSE << >>
        rest2 == IF hasNetloc THEN Slice(rest, delim, Len(rest)) ELSE rest
        hash == FirstOf(rest2, { "#" }, 1)
        rest3 == Slice(rest2, 1, hash - 1)
        qmark == FirstOf(rest3, { "?" }, 1)
    IN  [ scheme |-> IF hasScheme THEN Lower(Slice(url, 1, colon - 1)) ELSE << >>,
          netloc |-> netloc,
          path |-> Slice(rest3, 1, qmark - 1),
          query |-> Slice(rest3, qmark + 1, Len(rest3)) ]

S_notion_so == << "n", "o", "t", "i", "o", "n", ".", "s", "o" >>
S_www_notion_so == << "w", "w", "w", ".", "n", "o", "t", "i", "o", "n", ".", "s", "o" >>

\* NotionAPIUrlParser.extract_id_from_url, line 15
valid_domains == { S_notion_so, S_www_notion_so }

\* part.split("?")[0]
BeforeQuestionMark(part) == Slice(part, 1, FirstOf(part, { "?" }, 1) - 1)

\* variant of extract_id_from_url that accepts every host naming notion.so
ExtractIdFromUrl_HostContains(url) ==
    LET parsed_url == UrlParse(url)
        path == Strip(parsed_url.path, "/")
        dash == LastOf(path, "-")
    IN  IF ~Contains(S_notion_so, parsed_url.netloc)
        THEN Raised("Not a valid Notion URL")
        ELSE IF path = << >>
        THEN Raised("Could not extract ID from URL")
        ELSE Value(BeforeQuestionMark(Slice(path, dash + 1, Len(path))))

\* NotionAPIUrlParser.extract_id_from_url
ExtractIdFromUrl(url) ==
    LET parsed_url == UrlParse(url)
        path == Strip(parsed_url.path, "/")
        dash == LastOf(path, "-")
    IN  IF parsed_url.netloc \notin valid_domains
        THEN Raised("Not a valid Notion URL")
        ELSE IF path = << >>
        THEN Raised("Could not extract ID from URL")
        ELSE Value(BeforeQuestionMark(Slice(path, dash + 1, Len(path))))

\* -------------------------------------------------------------------- state
VARIABLES
    op,          \* the repository operation of this run
    max_depth,   \* NotionAPIPageRepository.max_depth
    stack,       \* active invocations, innermost last
    calls,       \* transport calls issued so far, in order
    responses,   \* what the transport answered to each call
    notices,     \* depth-limit warnings printed so far
    invs,        \* every get_page_content / query_database invocation so far
    status,      \* "running", "returned" or "raised"
    result,      \* value returned to the caller of the operation
    error,       \* exception that reached the caller of the operation
    svc_op,      \* the NotionPageService method of this run
    url_or_id,   \* its page reference argument
    query,       \* the query argument of search_blocks
    svc_pc,      \* position in the method, "returned" or "raised"
    page_id,     \* the local page_id
    parser_calls,\* arguments of the extract_id_from_url calls so far
    repo_calls,  \* PageRepository calls made so far
    page,        \* what repository.get_page returned
    content,     \* what repository.get_page_content returned
    svc_result,  \* value returned by the method
    svc_error,   \* exception that left the method
    cl_op,       \* the NotionAPIClient operation of this run
    cl_args,     \* its arguments
    cl_run,      \* per debug setting: one run of the operation
    m_input,     \* the wire JSON handed to a from_api constructor
    m_heap,      \* the mutable maps (dict objects) by address
    m_out,       \* what the from_api calls made so far returned
    m_text,      \* what the display-text calls made so far returned
    app_entry,   \* the entry point of this run (CLI, factory, MCP tool)
    app_args,    \* its arguments
    app_pc,      \* position in the entry point
    app_repo,    \* the page repository constructed for the run
    app_out,     \* what the entry point returned, raised or printed
    b_purchased, \* Batch._purchased_quantity
    b_allocations,\* Batch._allocations
    b_pc,        \* position in the Batch method being executed
    b_last,      \* the Batch call made last, with the state it started from
    b_tried,     \* lines handed to allocate since the quantity last changed
    ag_compute,  \* the --compute argument of the blog agent
    ag_iter,     \* compute_iterations
    ag_pc,       \* position in the agent loop
    ag_pending,  \* tool calls of the last response not yet dispatched
    ag_log       \* model calls made, tools executed, messages appended

repoVars == << op, max_depth, stack, calls, responses, notices, invs,
               status, result, error >>
svcVars == << svc_op, url_or_id, query, svc_pc, page_id, parser_calls,
              repo_calls, page, content, svc_result, svc_error >>
clientVars == << cl_op, cl_args, cl_run >>
mapVars == << m_input, m_heap, m_out, m_text >>
appVars == << app_entry, app_args, app_pc, app_repo, app_out >>
batchVars == << b_purchased, b_allocations, b_pc, b_last, b_tried >>
agentVars == << ag_compute, ag_iter, ag_pc, ag_pending, ag_log >>
labVars == << batchVars, agentVars >>
auxVars == << clientVars, mapVars, appVars, labVars >>
vars == << repoVars, svcVars, auxVars >>

RepoOps == { "get_page", "get_page_content", "query_database" }

NoResult == [kind |-> "none"]
NoError == [kind |-> "none"]
\* what requests raises: raise_for_status (HTTPError) or a failed connection
TransportErrors == { "HTTPError", "ConnectionError" }
TransportError(e) == [kind |-> e]
MappingError(e) == [kind |-> e]

\* mutation: an invocation that takes its current_depth to be 0
Frame_DepthNotPassed(inv, id, depth, pc) ==
    [ inv |-> inv, id |-> id, depth |-> 0, pc |-> pc,
      blocks |-> << >>, start_cursor |-> None,
      pending |-> << >>, has_more |-> FALSE, next_cursor |-> None ]

\* a new invocation record of a paginating method
Frame(inv, id, depth, pc) ==
    [ inv |-> inv, id |-> id, depth |-> depth, pc |-> pc,
      blocks |-> << >>, start_cursor |-> None,
      pending |-> << >>, has_more |-> FALSE, next_cursor |-> None ]

\* the history of one invocation: parent and index name the block of the
\* calling invocation whose children it fetches (0, 0 for the outermost one)
InvRecord(id, depth, parent, index) ==
    [id |-> id, depth |-> depth, parent |-> parent, index |-> index,
     status |-> "active", ret |-> << >>]

Top == stack[Len(stack)]
Running == status = "running" /\ stack # << >>

\* the service is not part of a run of Spec
SvcIdle ==
    /\ svc_op = "none" /\ url_or_id = << >> /\ query = << >>
    /\ svc_pc = "unused" /\ page_id = << >>
    /\ parser_calls = << >> /\ repo_calls = << >>
    /\ page = None /\ content = << >>
    /\ svc_result = NoResult /\ svc_error = None

\* the state right after the repository is constructed and the operation
\* is invoked by its caller
RepoInit ==
    /\ op \in RepoOps
    /\ max_depth \in (IF op = "query_database" THEN {0} ELSE 0..MaxDepthBound)
    /\ stack = << Frame(1, IF op = "query_database" THEN "db" ELSE "p", 0,
                        CASE op = "get_page" -> "get_page"
                          [] op = "get_page_content" -> "entry"
                          [] op = "query_database" -> "query") >>
    /\ calls = << >>
    /\ responses = << >>
    /\ notices = << >>
    /\ invs = IF op = "get_page" THEN << >>
              ELSE << InvRecord(stack[1].id, 0, 0, 0) >>
    /\ status = "running"
    /\ result = NoResult
    /\ error = NoError

\* no transport client operation is part of the run
ClientIdle == cl_op = "none" /\ cl_args = None /\ cl_run = << >>

\* no from_api constructor is part of the run
MapIdle ==
    m_input = None /\ m_heap = << >> /\ m_out = << >> /\ m_text = << >>

\* no entry point is part of the run
AppIdle ==
    /\ app_entry = "none" /\ app_args = None /\ app_pc = "unused"
    /\ app_repo = None /\ app_out = None

\* no Batch is part of the run
BatchIdle ==
    /\ b_purchased = 0 /\ b_allocations = {} /\ b_pc = "unused"
    /\ b_last = None /\ b_tried = {}

\* the blog agent is not part of the run
AgentIdle ==
    /\ ag_compute = 0 /\ ag_iter = 0 /\ ag_pc = "unused"
    /\ ag_pending = << >> /\ ag_log = None

LabIdle == BatchIdle /\ AgentIdle

AuxIdle == ClientIdle /\ MapIdle /\ AppIdle /\ LabIdle

Init == RepoInit /\ SvcIdle /\ AuxIdle

\* an exception leaves every active invocation and reaches the caller
Unwind(e) ==
    /\ stack' = << >>
    /\ status' = "raised"
    /\ error' = e
    /\ invs' = [i \in DOMAIN invs |->
                   IF invs[i].status = "active"
                   THEN [invs[i] EXCEPT !.status = "raised"] ELSE invs[i]]
    /\ UNCHANGED << result >>

\* mutation: the limit is tested one level too late
DepthLimitHit_OffByOne(current_depth) == current_depth > max_depth

\* repositories.py:23  if current_depth >= self.max_depth
DepthLimitHit(current_depth) == current_depth >= max_depth

\* mutation: the caller skips the invocation that would hit the limit
FetchesChildren_SkipsAtLimit(block, current_depth) ==
    block.has_children /\ current_depth + 1 < max_depth

\* repositories.py:38  if block.has_children and current_depth < self.max_depth
FetchesChildren(block, current_depth) ==
    block.has_children /\ current_depth < max_depth

\* mutation: the request cursor is not advanced
FollowCursor_Stale(response) == response.start_cursor

\* repositories.py:42-43  the cursor of the next request
FollowCursor(response) == response.next_cursor

\* a record of one transport call; inv and depth name the invocation issuing it
CallRecord(method, id, cursor, f) ==
    [method |-> method, id |-> id, cursor |-> cursor,
     inv |-> f.inv, depth |-> f.depth]

OkResponse(results, mark) ==
    [ok |-> TRUE, error |-> None, results |-> results, has_more |-> mark.has_more,
     next_cursor |-> mark.next_cursor]
FailedResponse(e) ==
    [ok |-> FALSE, error |-> e, results |-> << >>, has_more |-> FALSE,
     next_cursor |-> None]

\* value handed back by an invocation that returns: to the block of the
\* calling invocation (block.children = child_blocks) or to the caller
Return(ret) ==
    LET f == Top
        n == Len(stack)
    IN  /\ invs' = [invs EXCEPT ![f.inv] = [@ EXCEPT !.status = "returned",
                                                     !.ret = ret]]
        /\ IF n = 1
           THEN /\ stack' = << >>
                /\ status' = "returned"
                /\ result' = [kind |-> "list", items |-> ret]
           ELSE LET parent == stack[n - 1]
                    k == Len(parent.blocks)
                    b == parent.blocks[k]
                    b2 == [b EXCEPT !.children = ret,
                                    !.children_set = @ + 1]
                IN  /\ stack' = [SubSeq(stack, 1, n - 1) EXCEPT
                                   ![n - 1].blocks[k] = b2]
                    /\ UNCHANGED << status, result >>
        /\ UNCHANGED error


\* ---------------------------------- NotionAPIPageRepository.get_page_content
\* lines 23-25: the depth limit is reached: warn and return []
DepthLimitReturn ==
    /\ Running /\ Top.pc = "entry"
    /\ DepthLimitHit(Top.depth)
    /\ notices' = Append(notices, [inv |-> Top.inv, id |-> Top.id])
    /\ Return(<< >>)
    /\ UNCHANGED << op, max_depth, calls, responses, svcVars, auxVars >>

\* lines 27-28: blocks = [], start_cursor = None
BeginContent ==
    /\ Running /\ Top.pc = "entry"
    /\ ~DepthLimitHit(Top.depth)
    /\ stack' = [stack EXCEPT ![Len(stack)] =
                    [@ EXCEPT !.pc = "call", !.blocks = << >>,
                              !.start_cursor = None]]
    /\ UNCHANGED << op, max_depth, calls, responses, notices, invs,
                    status, result, error, svcVars, auxVars >>

\* line 31: api_client.get_block_children(page_id, start_cursor) answers
GetBlockChildren ==
    /\ Running /\ Top.pc = "call"
    /\ Len(calls) < MaxCalls
    /\ \E rs \in BlockResultLists, m \in PageMarks :
         /\ calls' = Append(calls, CallRecord("get_block_children", Top.id,
                                              Top.start_cursor, Top))
         /\ responses' = Append(responses, OkResponse(rs, m))
         /\ stack' = [stack EXCEPT ![Len(stack)] =
                         [@ EXCEPT !.pc = "loop", !.pending = rs,
                                   !.has_more = m.has_more,
                                   !.next_cursor = m.next_cursor]]
    /\ UNCHANGED << op, max_depth, notices, invs, status, result, error, svcVars, auxVars >>

\* mutation: a failed children fetch is attempted again
GetBlockChildrenFails_Retry ==
    /\ Running /\ Top.pc = "call"
    /\ Len(calls) < MaxCalls
    /\ \E e \in TransportErrors :
         /\ calls' = Append(calls, CallRecord("get_block_children", Top.id,
                                              Top.start_cursor, Top))
         /\ responses' = Append(responses, FailedResponse(e))
    /\ UNCHANGED << op, max_depth, stack, notices, invs, status, result,
                    error, svcVars, auxVars >>

\* line 31: api_client.get_block_children raises
GetBlockChildrenFails ==
    /\ Running /\ Top.pc = "call"
    /\ Len(calls) < MaxCalls
    /\ \E e \in TransportErrors :
         /\ calls' = Append(calls, CallRecord("get_block_children", Top.id,
                                              Top.start_cursor, Top))
         /\ responses' = Append(responses, FailedResponse(e))
         /\ Unwind(TransportError(e))
    /\ UNCHANGED << op, max_depth, notices, svcVars, auxVars >>

\* lines 33-35: Block.from_api(block_data) raises
MapBlockRaises ==
    /\ Running /\ Top.pc = "loop" /\ Top.pending # << >>
    /\ BlockFromApi(Head(Top.pending)).raised
    /\ Unwind(MappingError(BlockFromApi(Head(Top.pending)).error))
    /\ UNCHANGED << op, max_depth, calls, responses, notices, svcVars, auxVars >>

\* mutation: the invocation for a block's children is started but the loop
\* goes on with the next block before running it
MapBlock_SiblingsFirst ==
    /\ Running /\ Top.pc = "loop" /\ Top.pending # << >>
    /\ ~BlockFromApi(Head(Top.pending)).raised
    /\ LET f == Top
           n == Len(stack)
           block == BlockFromApi(Head(f.pending)).value
           f2 == [f EXCEPT !.blocks = Append(@, block),
                           !.pending = Tail(@)]
       IN  /\ stack' = [stack EXCEPT ![n] = f2]
           /\ invs' = IF FetchesChildren(block, f.depth)
                      THEN Append(invs, InvRecord(block.id, f.depth + 1,
                                                  f.inv, Len(f2.blocks)))
                      ELSE invs
    /\ UNCHANGED << op, max_depth, calls, responses, notices,
                    status, result, error, svcVars, auxVars >>

\* lines 33-40: map the next block of the response, append it, and descend
\* into it when it has children
MapBlock ==
    /\ Running /\ Top.pc = "loop" /\ Top.pending # << >>
    /\ ~BlockFromApi(Head(Top.pending)).raised
    /\ LET f == Top
           n == Len(stack)
           block == BlockFromApi(Head(f.pending)).value
           f2 == [f EXCEPT !.blocks = Append(@, block),
                           !.pending = Tail(@)]
       IN  IF FetchesChildren(block, f.depth)
           THEN /\ stack' = Append([stack EXCEPT ![n] = f2],
                                   Frame(Len(invs) + 1, block.id,
                                         f.depth + 1, "entry"))
                /\ invs' = Append(invs, InvRecord(block.id, f.depth + 1,
                                                     f.inv, Len(f2.blocks)))
           ELSE /\ stack' = [stack EXCEPT ![n] = f2]
                /\ UNCHANGED invs
    /\ UNCHANGED << op, max_depth, calls, responses, notices,
                    status, result, error, svcVars, auxVars >>

\* lines 42-43: has_more: follow next_cursor
NextPage ==
    /\ Running /\ Top.pc = "loop" /\ Top.pending = << >>
    /\ Top.has_more
    /\ stack' = [stack EXCEPT ![Len(stack)] =
                    [@ EXCEPT !.pc = "call",
                              !.start_cursor = FollowCursor(Top)]]
    /\ UNCHANGED << op, max_depth, calls, responses, notices, invs,
                    status, result, error, svcVars, auxVars >>

\* lines 44-47: no more pages: return blocks
ReturnBlocks ==
    /\ Running /\ Top.pc = "loop" /\ Top.pending = << >>
    /\ ~Top.has_more
    /\ Return(Top.blocks)
    /\ UNCHANGED << op, max_depth, calls, responses, notices, svcVars, auxVars >>


\* -------------------------------- NotionAPIDatabaseRepository.query_database
\* line 65: api_client.query_database(database_id, filter_params,
\* start_cursor) answers
QueryDatabaseCall ==
    /\ Running /\ Top.pc = "query"
    /\ Len(calls) < MaxCalls
    /\ \E rs \in PageResultLists, m \in PageMarks :
         /\ calls' = Append(calls, CallRecord("query_database", Top.id,
                                              Top.start_cursor, Top))
         /\ responses' = Append(responses, OkResponse(rs, m))
         /\ stack' = [stack EXCEPT ![Len(stack)] =
                         [@ EXCEPT !.pc = "qloop", !.pending = rs,
                                   !.has_more = m.has_more,
                                   !.next_cursor = m.next_cursor]]
    /\ UNCHANGED << op, max_depth, notices, invs, status, result, error, svcVars, auxVars >>

\* line 65: api_client.query_database raises
QueryDatabaseFails ==
    /\ Running /\ Top.pc = "query"
    /\ Len(calls) < MaxCalls
    /\ \E e \in TransportErrors :
         /\ calls' = Append(calls, CallRecord("query_database", Top.id,
                                              Top.start_cursor, Top))
         /\ responses' = Append(responses, FailedResponse(e))
         /\ Unwind(TransportError(e))
    /\ UNCHANGED << op, max_depth, notices, svcVars, auxVars >>

\* lines 67-68: Page.from_api(page_data) raises
MapPageRaises ==
    /\ Running /\ Top.pc = "qloop" /\ Top.pending # << >>
    /\ PageFromApi(Head(Top.pending)).raised
    /\ Unwind(MappingError(PageFromApi(Head(Top.pending)).error))
    /\ UNCHANGED << op, max_depth, calls, responses, notices, svcVars, auxVars >>

\* lines 67-69: map the next page of the response and append it
MapPage ==
    /\ Running /\ Top.pc = "qloop" /\ Top.pending # << >>
    /\ ~PageFromApi(Head(Top.pending)).raised
    /\ stack' = [stack EXCEPT ![Len(stack)] =
                    [@ EXCEPT !.blocks =
                                 Append(@, PageFromApi(Head(Top.pending)).value),
                              !.pending = Tail(@)]]
    /\ UNCHANGED << op, max_depth, calls, responses, notices, invs,
                    status, result, error, svcVars, auxVars >>

\* lines 71-72: has_more: follow next_cursor
QueryNextPage ==
    /\ Running /\ Top.pc = "qloop" /\ Top.pending = << >>
    /\ Top.has_more
    /\ stack' = [stack EXCEPT ![Len(stack)] =
                    [@ EXCEPT !.pc = "query",
                              !.start_cursor = FollowCursor(Top)]]
    /\ UNCHANGED << op, max_depth, calls, responses, notices, invs,
                    status, result, error, svcVars, auxVars >>

\* lines 73-77: no more pages: return pages
ReturnPages ==
    /\ Running /\ Top.pc = "qloop" /\ Top.pending = << >>
    /\ ~Top.has_more
    /\ Return(Top.blocks)
    /\ UNCHANGED << op, max_depth, calls, responses, notices, svcVars, auxVars >>

\* ------------------------------------------ NotionAPIPageRepository.get_page
\* lines 17-18: api_client.get_page(page_id) answers and Page.from_api maps it
GetPage ==
    /\ Running /\ Top.pc = "get_page"
    /\ \E tags \in PropertyTagLists :
         LET r == PageFromApi(WirePage(Top.id, tags))
         IN  /\ calls' = Append(calls, CallRecord("get_page", Top.id, None, Top))
             /\ responses' = Append(responses,
                                    OkResponse(<< WirePage(Top.id, tags) >>,
                                               [has_more |-> FALSE,
                                                next_cursor |-> None]))
             /\ IF r.raised
                THEN Unwind(MappingError(r.error))
                ELSE /\ stack' = << >>
                     /\ status' = "returned"
                     /\ result' = [kind |-> "page", page |-> r.value]
                     /\ UNCHANGED << invs, error >>
    /\ UNCHANGED << op, max_depth, notices, svcVars, auxVars >>

\* line 17: api_client.get_page raises
GetPageFails ==
    /\ Running /\ Top.pc = "get_page"
    /\ \E e \in TransportErrors :
         /\ calls' = Append(calls, CallRecord("get_page", Top.id, None, Top))
         /\ responses' = Append(responses, FailedResponse(e))
         /\ Unwind(TransportError(e))
    /\ UNCHANGED << op, max_depth, notices, svcVars, auxVars >>

Next ==
    \/ DepthLimitReturn
    \/ BeginContent
    \/ GetBlockChildren
    \/ GetBlockChildrenFails
    \/ MapBlockRaises
    \/ MapBlock
    \/ NextPage
    \/ ReturnBlocks
    \/ QueryDatabaseCall
    \/ QueryDatabaseFails
    \/ MapPageRaises
    \/ MapPage
    \/ QueryNextPage
    \/ ReturnPages
    \/ GetPage
    \/ GetPageFails

Spec == Init /\ [][Next]_vars


\* ------------------------------------------------------- history operators
\* the indices, in order, of the transport calls issued by invocation i
CallsOf(i) ==
    SelectSeq([j \in 1..Len(calls) |-> j], LAMBDA j : calls[j].inv = i)

\* the results of the responses at the given call indices, concatenated
RECURSIVE ConcatResults(_)
ConcatResults(js) ==
    IF js = << >> THEN << >>
    ELSE responses[Head(js)].results \o ConcatResults(Tail(js))

\* entity e is the mapping of wire object w
MappedFrom(e, w) ==
    /\ e.id = w.id
    /\ op = "get_page_content" =>
          /\ e.block_type = w.type
          /\ e.has_children = w.has_children
    /\ op = "query_database" => Len(e.properties) = Len(w.properties)

\* the blocks invocation p holds now: its list while it runs, its return
\* value afterwards
BlocksOf(p) ==
    IF invs[p].status = "active"
    THEN LET fs == SelectSeq(stack, LAMBDA f : f.inv = p) IN fs[1].blocks
    ELSE invs[p].ret

\* the invocations started for block k of invocation p
ChildInvs(p, k) ==
    { i \in DOMAIN invs : invs[i].parent = p /\ invs[i].index = k }

NoticesOf(i) == { n \in DOMAIN notices : notices[n].inv = i }

\* nested levels of a block forest
RECURSIVE Levels(_)
Levels(forest) ==
    IF forest = << >> THEN 0
    ELSE LET m == CHOOSE x \in { Levels(forest[k].children) : k \in DOMAIN forest } :
                    \A y \in { Levels(forest[k].children) : k \in DOMAIN forest } : y <= x
         IN  1 + m

\* ------------------------------------------------------------------ claims
\* C1: pagination protocol.  Every invocation of get_page_content and of
\* query_database sends its first transport call without a cursor; each
\* later call of the invocation follows a response that said has_more and
\* carries exactly that response's next_cursor; all its calls address the
\* resource it was invoked for; and when it returns, its last response said
\* has_more = false and the value returned is the mapping of the results of
\* all its responses, concatenated in the order received.  Hence has_more =
\* true n-1 times and then false means exactly n calls.
C1_PaginationProtocol ==
    \A i \in DOMAIN invs :
       LET js == CallsOf(i)
       IN  /\ \A k \in DOMAIN js :
                /\ calls[js[k]].id = invs[i].id
                /\ calls[js[k]].method = (IF op = "query_database"
                                          THEN "query_database"
                                          ELSE "get_block_children")
                /\ k = 1 => calls[js[k]].cursor = None
                /\ k > 1 => /\ responses[js[k - 1]].ok
                            /\ responses[js[k - 1]].has_more
                            /\ calls[js[k]].cursor = responses[js[k - 1]].next_cursor
           /\ invs[i].status = "returned" =>
                \/ js = << >> /\ invs[i].depth >= max_depth
                              /\ op = "get_page_content" /\ invs[i].ret = << >>
                \/ /\ js # << >>
                   /\ responses[js[Len(js)]].ok
                   /\ ~responses[js[Len(js)]].has_more
                   /\ LET all == ConcatResults(js)
                      IN  /\ Len(invs[i].ret) = Len(all)
                          /\ \A k \in DOMAIN all : MappedFrom(invs[i].ret[k], all[k])

\* C1 witness: an invocation returned after three calls, the later two
\* with cursors, and returned at least two mapped results
C1_Witness ==
    \E i \in DOMAIN invs :
       /\ invs[i].status = "returned"
       /\ Len(CallsOf(i)) = 3
       /\ calls[CallsOf(i)[2]].cursor \in Cursors
       /\ calls[CallsOf(i)[3]].cursor \in Cursors
       /\ calls[CallsOf(i)[3]].cursor # calls[CallsOf(i)[2]].cursor
       /\ Len(invs[i].ret) >= 2


ChildrenAttached(p, k) ==
    LET b == BlocksOf(p)[k]
    IN  IF b.has_children
        THEN /\ Cardinality(ChildInvs(p, k)) = 1
             /\ \A i \in ChildInvs(p, k) :
                   /\ invs[i].id = b.id
                   /\ invs[i].depth = invs[p].depth + 1
                   /\ invs[i].status = "returned" =>
                         b.children = invs[i].ret /\ b.children_set = 1
                   /\ invs[i].status = "active" => b.children_set = 0
        ELSE ChildInvs(p, k) = { } /\ b.children_set = 0

\* C3 as stated: for every block obtained at depth d with has_children and
\* d < max_depth, once its children are attached a children-fetch call has
\* been issued for the block's id by an invocation at depth d + 1
C3_ChildrenFetchedBelowLimit ==
    op = "get_page_content" =>
      \A p \in DOMAIN invs : \A k \in DOMAIN BlocksOf(p) :
         LET b == BlocksOf(p)[k]
         IN  (b.has_children /\ invs[p].depth < max_depth /\ b.children_set > 0)
                => \E j \in DOMAIN calls :
                      /\ calls[j].method = "get_block_children"
                      /\ calls[j].id = b.id
                      /\ calls[j].depth = invs[p].depth + 1
                      /\ calls[j].inv \in ChildInvs(p, k)

\* C3 amended: every block with has_children obtained by an invocation
\* at depth d (always d < max_depth) gets one nested invocation for its id at
\* depth d + 1, whose return value is attached as its children; that
\* invocation fetches from the transport only if d + 1 < max_depth, and when
\* d + 1 = max_depth it issues no call and the children are the empty list,
\* with one notice.
C3_RecursionProtocol ==
    op = "get_page_content" =>
      \A p \in DOMAIN invs : \A k \in DOMAIN BlocksOf(p) :
         LET b == BlocksOf(p)[k]
         IN  /\ invs[p].depth < max_depth
             /\ ChildrenAttached(p, k)
             /\ \A i \in ChildInvs(p, k) :
                   IF invs[i].depth < max_depth
                   THEN /\ NoticesOf(i) = { }
                        /\ invs[i].status = "returned" =>
                              /\ CallsOf(i) # << >>
                              /\ \A x \in DOMAIN CallsOf(i) :
                                    /\ calls[CallsOf(i)[x]].id = b.id
                                    /\ calls[CallsOf(i)[x]].depth = invs[p].depth + 1
                   ELSE /\ CallsOf(i) = << >>
                        /\ invs[i].status = "returned" =>
                              b.children = << >> /\ Cardinality(NoticesOf(i)) = 1

\* C3 witness: the operation returned a forest in which one block had its
\* children fetched from the transport and a block one level down, at
\* depth max_depth - 1, had its children left empty at the limit
C3_Witness ==
    /\ op = "get_page_content" /\ status = "returned"
    /\ \E i, i2 \in DOMAIN invs :
          /\ invs[i].depth = 1 /\ invs[i].depth < max_depth
          /\ invs[i].status = "returned" /\ CallsOf(i) # << >>
          /\ invs[i].ret # << >>
          /\ invs[i2].parent = i /\ invs[i2].depth = max_depth
          /\ invs[i2].status = "returned" /\ CallsOf(i2) = << >>

\* C4: no partial-failure recovery.  A transport call that failed is the
\* last transport call of the run: it is not issued again and none follows
\* it; the operation has raised exactly the error the transport raised, every
\* invocation that was active has been left, and no value - in particular no
\* partial list of blocks - has been returned.
C4_TransportErrorPropagates ==
    op \in { "get_page", "get_page_content" } =>
      \A j \in DOMAIN responses :
         ~responses[j].ok =>
            /\ j = Len(calls)
            /\ status = "raised"
            /\ error = TransportError(responses[j].error)
            /\ result = NoResult
            /\ stack = << >>
            /\ \A i \in DOMAIN invs : invs[i].status # "active"

\* C4 witness: a children fetch failed in a nested invocation, after an
\* earlier fetch had already delivered blocks
C4_Witness ==
    /\ op = "get_page_content" /\ status = "raised"
    /\ Len(calls) >= 2
    /\ ~responses[Len(calls)].ok
    /\ calls[Len(calls)].depth >= 1
    /\ responses[1].results # << >>

\* C5: Block.from_api never raises because of the type tag: every block
\* received whose type is outside the recognised set maps to a base Block
\* with block_type UNSUPPORTED, keeping id and has_children, and
\* get_page_content never fails with the ValueError of an unknown tag.
C5_UnknownBlockTypeTolerated ==
    op = "get_page_content" =>
      /\ \A j \in DOMAIN responses : \A k \in DOMAIN responses[j].results :
            LET d == responses[j].results[k]
                r == BlockFromApi(d)
            IN  d.type \notin BlockTypeValues =>
                   /\ ~r.raised
                   /\ r.value.cls = "Block"
                   /\ r.value.block_type = "unsupported"
                   /\ r.value.id = d.id
                   /\ r.value.has_children = d.has_children
      /\ status = "raised" => error.kind # "ValueError"

\* C6: PropertyValue.from_api never raises because of the type tag: title,
\* rich_text and checkbox map to their typed variants, every other tag maps
\* to a GenericPropertyValue, and so get_page and query_database never fail
\* with NotImplementedError on a page holding such properties.
C6_UnknownPropertyTypeTolerated ==
    op \in { "get_page", "query_database" } =>
      /\ \A j \in DOMAIN responses : \A k \in DOMAIN responses[j].results :
            \A x \in DOMAIN responses[j].results[k].properties :
               LET tag == responses[j].results[k].properties[x]
                   r == PropertyValueFromApi(tag)
               IN  /\ ~r.raised
                   /\ tag = "title" => r.value.cls = "TitlePropertyValue"
                   /\ tag = "rich_text" => r.value.cls = "RichTextPropertyValue"
                   /\ tag = "checkbox" => r.value.cls = "CheckboxPropertyValue"
                   /\ tag \notin { "title", "rich_text", "checkbox" } =>
                         r.value.cls = "GenericPropertyValue"
      /\ status = "raised" => error.kind # "NotImplementedError"


\* ===================================================== NotionPageService
\* the class the source imports as CodeBlock
CodeBlockClasses == { "CodeBlock" }

\* a block entity as the service sees it: its class, block_type.value,
\* get_plain_text(), language (code blocks), has_children and children
SBlock(cls, type, text, language, hc, children) ==
    [ cls |-> cls, block_type |-> type, text |-> text, language |-> language,
      has_children |-> hc, children |-> children ]
Para(text, hc, children) ==
    SBlock("ParagraphBlock", "paragraph", text, None, hc, children)
Code(text, hc, children) ==
    SBlock("CodeBlock", "code", text, "python", hc, children)
Other(type, hc, children) == SBlock("Block", type, << >>, None, hc, children)

\* page references handed to the service
UrlOrIdInputs ==
    { << "h", "t", "t", "p", "s", ":", "/", "/", "w", "w", "w", ".", "n", "o", "t", "i", "o", "n", ".", "s", "o", "/", "p", "g", "-", "a", "b", "1" >>,
      << "h", "t", "t", "p", "s", ":", "/", "/", "n", "o", "t", "i", "o", "n", ".", "s", "o", "/", "a", "b", "1" >>,
      << "h", "t", "t", "p", "s", ":", "/", "/", "n", "o", "t", "i", "o", "n", ".", "s", "o", "/", "p", "g", "-", "a", "b", "1", "?", "v", "=", "1" >>,
      << "h", "t", "t", "p", "s", ":", "/", "/", "n", "o", "t", "i", "o", "n", ".", "s", "o", "/", "p", "g", "-", "a", "b", "1", "/" >>,
      << "h", "t", "t", "p", "s", ":", "/", "/", "n", "o", "t", "i", "o", "n", ".", "s", "o", "/" >>,
      << "h", "t", "t", "p", "s", ":", "/", "/", "n", "o", "t", "i", "o", "n", ".", "s", "o", "/", "p", "g", "-" >>,
      << "h", "t", "t", "p", "s", ":", "/", "/", "n", "o", "t", "n", "o", "t", "i", "o", "n", ".", "s", "o", "/", "p", "g", "-", "a", "b", "1" >>,
      << "h", "t", "t", "p", "s", ":", "/", "/", "e", "x", "a", "m", "p", "l", "e", ".", "c", "o", "m", "/", "p", "g", "-", "a", "b", "1" >>,
      << "n", "o", "t", "i", "o", "n", ".", "s", "o", "/", "p", "g", "-", "a", "b", "1" >>,
      << "a", "b", "1" >>,
      << "p", "g", "-", "a", "b", "2" >> }

\* queries handed to search_blocks
Queries == { << "a" >>, << "A", "B" >>, << "b" >>, << "c" >>, << >> }

\* block forests the repository returns
Forests ==
    { << >>,
      << Para(<< "A", "b" >>, FALSE, << >>) >>,
      << Para(<< "a" >>, TRUE, << >>) >>,
      << Para(<< "b" >>, TRUE,
              << SBlock("HeadingBlock", "heading_1", << "c", "b" >>, None, TRUE,
                        << Code(<< "a", "B" >>, FALSE, << >>) >>) >>) >>,
      << Para(<< "a", "b" >>, TRUE,
              << SBlock("ToDoBlock", "to_do", << "b" >>, None, FALSE, << >>),
                 Other("image", FALSE, << >>),
                 Code(<< "b", "a" >>, FALSE, << >>) >>),
         Other("toggle", TRUE, << Para(<< "B", "A" >>, FALSE, << >>) >>) >> }

\* the Page the repository returns
PageStub == [id |-> "page", properties |-> << >>]

\* errors the repository lets through
RepoErrors == { "HTTPError", "ValueError" }

\* notion_services.py:45  isinstance(block, (TextBlock, CodeBlock))
IsTextOrCode(block) ==
    block.cls \in TextBlockClasses \cup { "TextBlock" } \cup CodeBlockClasses

\* mutation: the comparison is case-sensitive
Matches_CaseSensitive(q, block) == Contains(q, block.text)

\* notion_services.py:46-47  query.lower() in block.get_plain_text().lower()
Matches(q, block) == Contains(Lower(q), Lower(block.text))

\* a dict with keys type, content and, when present, language and children
InfoRecord(block, keys, children) ==
    [ keys |-> { "type", "content" } \cup keys
                  \cup (IF block.cls \in CodeBlockClasses THEN { "language" } ELSE { }),
      type |-> block.block_type,
      content |-> block.text,
      language |-> IF block.cls \in CodeBlockClasses THEN block.language ELSE None,
      children |-> children ]

\* mutation: the children list takes every child, whatever its class
ChildInfos_AnyClass(block) ==
    [k \in DOMAIN block.children |-> InfoRecord(block.children[k], { }, << >>)]

\* notion_services.py:58-66  the child_info of each child that is a text or
\* code block
ChildInfos(block) ==
    LET cs == SelectSeq(block.children, IsTextOrCode)
    IN  [k \in DOMAIN cs |-> InfoRecord(cs[k], { }, << >>)]

\* notion_services.py:48-68  block_info of a matching block
BlockInfo(block) ==
    IF block.has_children /\ block.children # << >>
    THEN InfoRecord(block, { "children" }, ChildInfos(block))
    ELSE InfoRecord(block, { }, << >>)

RECURSIVE search_block(_, _), SearchEach(_, _)
\* notion_services.py:43-73  what search_block(block) appends to
\* matching_blocks
search_block(block, q) ==
    (IF IsTextOrCode(block) /\ Matches(q, block)
     THEN << BlockInfo(block) >> ELSE << >>)
    \o (IF block.has_children /\ block.children # << >>
        THEN SearchEach(block.children, q) ELSE << >>)

\* notion_services.py:72-73, 76-77  for child in ...: search_block(child)
SearchEach(blocks, q) ==
    IF blocks = << >> THEN << >>
    ELSE search_block(Head(blocks), q) \o SearchEach(Tail(blocks), q)

\* mutation: a page reference is taken for a URL when it has a scheme
IsUrl_ByScheme(s) == UrlParse(s).scheme # << >>

\* notion_services.py:27  "notion.so" in url_or_id
IsUrl(s) == Contains(S_notion_so, s)

\* outcome of determining page_id: whether the URL parser was called, and
\* what came of it
PageRef(called, r) == [called |-> called, r |-> r]

\* notion_services.py:27-30  get_page_with_content
PageRefOfUrlOrId(s) ==
    IF IsUrl(s) THEN PageRef(TRUE, ExtractIdFromUrl(s))
    ELSE PageRef(FALSE, Value(s))

\* mutation: search_blocks determines page_id as get_page_with_content does
PageRefOfUrl_OrId(url) ==
    IF Contains(S_notion_so, url) THEN PageRef(TRUE, ExtractIdFromUrl(url))
    ELSE PageRef(FALSE, Value(url))

\* notion_services.py:22, 40  get_page_content_by_url, called by search_blocks
PageRefOfUrl(url) == PageRef(TRUE, ExtractIdFromUrl(url))


SvcOps == { "get_page_with_content", "search_blocks" }

\* the repositories are not part of a run of SpecService
RepoIdle ==
    /\ op = "none" /\ max_depth = 0 /\ stack = << >>
    /\ calls = << >> /\ responses = << >> /\ notices = << >> /\ invs = << >>
    /\ status = "unused" /\ result = NoResult /\ error = NoError

\* a service method has just been invoked
SvcInit ==
    /\ svc_op \in SvcOps
    /\ url_or_id \in UrlOrIdInputs
    /\ query \in (IF svc_op = "search_blocks" THEN Queries ELSE { << >> })
    /\ svc_pc = "start"
    /\ page_id = << >>
    /\ parser_calls = << >>
    /\ repo_calls = << >>
    /\ page = None
    /\ content = << >>
    /\ svc_result = NoResult
    /\ svc_error = None
    /\ RepoIdle
    /\ AuxIdle

\* page_id is determined, or the URL parser's error leaves the method
SetPageId(ref, next) ==
    /\ parser_calls' = IF ref.called THEN Append(parser_calls, url_or_id)
                       ELSE parser_calls
    /\ IF ref.r.raised
       THEN /\ svc_pc' = "raised"
            /\ svc_error' = ref.r.error
            /\ UNCHANGED page_id
       ELSE /\ svc_pc' = next
            /\ page_id' = ref.r.value
            /\ UNCHANGED svc_error
    /\ UNCHANGED << svc_op, url_or_id, query, repo_calls, page, content,
                    svc_result, repoVars, auxVars >>

\* get_page_with_content, lines 27-30
ResolveUrlOrId ==
    /\ svc_op = "get_page_with_content" /\ svc_pc = "start"
    /\ SetPageId(PageRefOfUrlOrId(url_or_id), "get_page")

\* search_blocks, line 40: get_page_content_by_url, line 22
ResolveUrl ==
    /\ svc_op = "search_blocks" /\ svc_pc = "start"
    /\ SetPageId(PageRefOfUrl(url_or_id), "get_page_content")

\* line 32: page_repository.get_page(page_id) returns
RepoGetPage ==
    /\ svc_pc = "get_page"
    /\ repo_calls' = Append(repo_calls, [method |-> "get_page", id |-> page_id])
    /\ page' = PageStub
    /\ svc_pc' = "get_page_content"
    /\ UNCHANGED << svc_op, url_or_id, query, page_id, parser_calls, content,
                    svc_result, svc_error, repoVars, auxVars >>

\* mutation: the error of get_page is noted and the method goes on
RepoGetPageFails_GoesOn ==
    /\ svc_pc = "get_page"
    /\ repo_calls' = Append(repo_calls, [method |-> "get_page", id |-> page_id])
    /\ \E e \in RepoErrors : svc_error' = e
    /\ svc_pc' = "get_page_content"
    /\ UNCHANGED << svc_op, url_or_id, query, page_id, parser_calls, page,
                    content, svc_result, repoVars, auxVars >>

\* line 32: page_repository.get_page(page_id) raises
RepoGetPageFails ==
    /\ svc_pc = "get_page"
    /\ repo_calls' = Append(repo_calls, [method |-> "get_page", id |-> page_id])
    /\ \E e \in RepoErrors : svc_error' = e
    /\ svc_pc' = "raised"
    /\ UNCHANGED << svc_op, url_or_id, query, page_id, parser_calls, page,
                    content, svc_result, repoVars, auxVars >>

\* lines 33-35 and 23: page_repository.get_page_content(page_id) returns;
\* get_page_with_content then returns (page, content)
RepoGetPageContent ==
    /\ svc_pc = "get_page_content"
    /\ repo_calls' = Append(repo_calls,
                            [method |-> "get_page_content", id |-> page_id])
    /\ \E f \in Forests :
         /\ content' = f
         /\ IF svc_op = "get_page_with_content"
            THEN /\ svc_pc' = "returned"
                 /\ svc_result' = [kind |-> "pair", page |-> page, items |-> f]
            ELSE /\ svc_pc' = "search"
                 /\ UNCHANGED svc_result
    /\ UNCHANGED << svc_op, url_or_id, query, page_id, parser_calls, page,
                    svc_error, repoVars, auxVars >>

\* lines 33 and 23: page_repository.get_page_content(page_id) raises
RepoGetPageContentFails ==
    /\ svc_pc = "get_page_content"
    /\ repo_calls' = Append(repo_calls,
                            [method |-> "get_page_content", id |-> page_id])
    /\ \E e \in RepoErrors : svc_error' = e
    /\ svc_pc' = "raised"
    /\ UNCHANGED << svc_op, url_or_id, query, page_id, parser_calls, page,
                    content, svc_result, repoVars, auxVars >>

\* search_blocks, lines 41-79: search every block and return matching_blocks
SearchBlocks ==
    /\ svc_pc = "search"
    /\ svc_result' = [kind |-> "matches", items |-> SearchEach(content, query)]
    /\ svc_pc' = "returned"
    /\ UNCHANGED << svc_op, url_or_id, query, page_id, parser_calls,
                    repo_calls, page, content, svc_error, repoVars, auxVars >>

SvcNext ==
    \/ ResolveUrlOrId
    \/ ResolveUrl
    \/ RepoGetPage
    \/ RepoGetPageFails
    \/ RepoGetPageContent
    \/ RepoGetPageContentFails
    \/ SearchBlocks

SpecService == SvcInit /\ [][SvcNext]_vars


\* ----------------------------------------------------- claims on the service
\* C7: input disambiguation in get_page_with_content.  If the input contains
\* "notion.so" the URL parser is called exactly once, with the input, and
\* every repository call receives the id it extracted (none is made when it
\* raises); otherwise the parser is never called and every repository call
\* receives the input unchanged.  A run that returns has called get_page and
\* then get_page_content, once each.
C7_InputDisambiguation ==
    (svc_op = "get_page_with_content" /\ svc_pc # "start") =>
       LET isurl == Contains(S_notion_so, url_or_id)
           extracted == ExtractIdFromUrl(url_or_id)
       IN  /\ parser_calls = (IF isurl THEN << url_or_id >> ELSE << >>)
           /\ \A k \in DOMAIN repo_calls :
                 IF isurl
                 THEN ~extracted.raised /\ repo_calls[k].id = extracted.value
                 ELSE repo_calls[k].id = url_or_id
           /\ svc_pc = "returned" =>
                 [k \in DOMAIN repo_calls |-> repo_calls[k].method]
                    = << "get_page", "get_page_content" >>

\* C7 witness: a URL whose text differs from the id it carries went through
\* the parser and both repository calls were made with the extracted id
C7_Witness ==
    /\ svc_op = "get_page_with_content" /\ svc_pc = "returned"
    /\ Contains(S_notion_so, url_or_id)
    /\ parser_calls = << url_or_id >>
    /\ Len(repo_calls) = 2
    /\ repo_calls[1].id = << "a", "b", "1" >>
    /\ repo_calls[2].id = << "a", "b", "1" >>

\* the blocks of a forest in pre-order: a parent before its descendants,
\* siblings in list order
RECURSIVE PreOrder(_)
PreOrder(forest) ==
    IF forest = << >> THEN << >>
    ELSE << Head(forest) >> \o PreOrder(Head(forest).children)
            \o PreOrder(Tail(forest))

\* the blocks search_blocks is to report: text or code blocks whose plain
\* text contains the query, compared case-insensitively
IsHit(block) ==
    /\ block.cls \in TextBlockClasses \cup CodeBlockClasses
    /\ Contains(Lower(query), Lower(block.text))

\* C8: search_blocks returns one record per text or code block of the
\* fetched forest, at any depth, whose plain text contains the query
\* case-insensitively, and none for any other block; the records are in
\* pre-order, and each carries the block's type, its full plain text as
\* content, and language exactly when it is a code block.
C8_SearchPreOrder ==
    (svc_op = "search_blocks" /\ svc_pc = "returned") =>
       LET hits == SelectSeq(PreOrder(content), IsHit)
           recs == svc_result.items
       IN  /\ Len(recs) = Len(hits)
           /\ \A k \in DOMAIN hits :
                 /\ recs[k].type = hits[k].block_type
                 /\ recs[k].content = hits[k].text
                 /\ ("language" \in recs[k].keys) = (hits[k].cls = "CodeBlock")
                 /\ hits[k].cls = "CodeBlock" =>
                       recs[k].language = hits[k].language

\* C8 witness: a query in another letter case than the text found a code
\* block on the third level of the forest
C8_Witness ==
    /\ svc_op = "search_blocks" /\ svc_pc = "returned"
    /\ Levels(content) = 3
    /\ query = << "A", "B" >>
    /\ Len(svc_result.items) = 1
    /\ svc_result.items[1].content = << "a", "B" >>
    /\ svc_result.items[1].language = "python"

\* C9 as stated: the children field of a match record lists only immediate
\* children that are text or code blocks and themselves match the query
C9_ChildrenAreMatches ==
    (svc_op = "search_blocks" /\ svc_pc = "returned") =>
       LET hits == SelectSeq(PreOrder(content), IsHit)
           recs == svc_result.items
       IN  \A k \in DOMAIN recs :
              LET cs == SelectSeq(hits[k].children, IsHit)
              IN  /\ Len(recs[k].children) = Len(cs)
                  /\ \A x \in DOMAIN cs :
                        recs[k].children[x].content = cs[x].text

\* C9 amended: the children field of a match record is present exactly when
\* the matched block has has_children and a non-empty children list, and it
\* lists every immediate child that is a text or code block, in list
\* order, whether or not that child matches the query; children of other
\* classes are not listed.
C9_ChildrenAreTextOrCode ==
    (svc_op = "search_blocks" /\ svc_pc = "returned") =>
       LET hits == SelectSeq(PreOrder(content), IsHit)
           recs == svc_result.items
       IN  \A k \in DOMAIN recs :
              LET cs == SelectSeq(hits[k].children,
                                  LAMBDA c : c.cls \in TextBlockClasses
                                                         \cup CodeBlockClasses)
              IN  /\ ("children" \in recs[k].keys)
                        = (hits[k].has_children /\ hits[k].children # << >>)
                  /\ Len(recs[k].children) = Len(cs)
                  /\ \A x \in DOMAIN cs :
                        /\ recs[k].children[x].type = cs[x].block_type
                        /\ recs[k].children[x].content = cs[x].text
                        /\ "children" \notin recs[k].children[x].keys

\* C9 witness: a match record lists a child that does not match the query,
\* and the matched block has a child of another class that is not listed
C9_Witness ==
    /\ svc_op = "search_blocks" /\ svc_pc = "returned"
    /\ \E k \in DOMAIN svc_result.items :
          LET r == svc_result.items[k]
          IN  /\ "children" \in r.keys
              /\ \E x \in DOMAIN r.children :
                    ~Contains(Lower(query), Lower(r.children[x].content))
              /\ Len(r.children) = 2
              /\ Len(SelectSeq(PreOrder(content), IsHit)[k].children) = 3

\* C10 as stated: given a literal page ID (no "notion.so" in it),
\* search_blocks fetches the content of that page ID from the repository
C10_LiteralIdFetched ==
    (/\ svc_op = "search_blocks" /\ svc_pc \in { "returned", "raised" }
     /\ ~Contains(S_notion_so, url_or_id))
       => /\ repo_calls # << >>
          /\ repo_calls[1] = [method |-> "get_page_content", id |-> url_or_id]

\* C10 amended: search_blocks takes a URL only.  It always passes its page
\* reference to the URL parser, exactly once; for a literal page ID (no
\* "notion.so" in it) the parser raises "Not a valid Notion URL", which leaves
\* search_blocks with no repository call made; when the parser succeeds, the
\* only repository call is get_page_content with the extracted id, and the
\* content it returns is what is searched.
C10_SearchTakesUrlOnly ==
    (svc_op = "search_blocks" /\ svc_pc # "start") =>
       LET extracted == ExtractIdFromUrl(url_or_id)
       IN  /\ parser_calls = << url_or_id >>
           /\ ~Contains(S_notion_so, url_or_id) =>
                 /\ svc_pc = "raised"
                 /\ svc_error = "Not a valid Notion URL"
                 /\ repo_calls = << >>
           /\ \A k \in DOMAIN repo_calls :
                 /\ k = 1
                 /\ ~extracted.raised
                 /\ repo_calls[k] = [method |-> "get_page_content",
                                     id |-> extracted.value]
           /\ svc_pc = "returned" => Len(repo_calls) = 1

\* C10 witness: search_blocks was given a literal page ID and raised
\* without calling the repository
C10_Witness ==
    /\ svc_op = "search_blocks" /\ svc_pc = "raised"
    /\ url_or_id = << "a", "b", "1" >>
    /\ parser_calls = << url_or_id >>
    /\ repo_calls = << >>

\* ===================================================== extract_id_from_url
\* SpecUrl applies extract_id_from_url to URLs put together from their parts,
\* so that what the parser makes of a string can be compared with the parts
\* the string was written from.
S_https == << "h", "t", "t", "p", "s", ":", "/", "/" >>
S_http == << "h", "t", "t", "p", ":", "/", "/" >>

\* scheme and "//", or nothing at all (a string with no host)
UrlSchemes == { S_https, S_http, << >> }

\* tests/test_utils.py, test_invalid_urls, and hosts that differ from the
\* valid ones by a port or by case
UrlHosts ==
    { S_notion_so, S_www_notion_so,
      << "n", "o", "t", "n", "o", "t", "i", "o", "n", ".", "s", "o" >>,
      << "n", "o", "t", "i", "o", "n", ".", "c", "o", "m" >>,
      << "e", "x", "a", "m", "p", "l", "e", ".", "c", "o", "m" >>,
      << "n", "o", "t", "i", "o", "n", ".", "s", "o", ":", "4", "4", "3" >>,
      << "N", "o", "t", "i", "o", "n", ".", "s", "o" >>,
      << >> }

UrlSlugs == { << >>, << "p", "g" >>, << "m", "y", "-", "p", "g" >> }
UrlIds == { << >>, << "a", "b", "1" >> }
UrlQueries ==
    { << >>, << "?", "v", "=", "1" >>, << "?", "p", "=", "a", "-", "b" >> }

\* a path is empty, or "/" [slug "-"] id ["/"]
UrlPaths ==
    { [ lead |-> << >>, hyphen |-> FALSE, slug |-> << >>, id |-> << >>,
        trail |-> << >> ] }
    \cup
    { p \in [ lead : { << "/" >> }, hyphen : BOOLEAN, slug : UrlSlugs,
              id : UrlIds, trail : { << >>, << "/" >> } ] :
        p.hyphen \/ p.slug = << >> }

UrlParts ==
    [ scheme : UrlSchemes, host : UrlHosts, path : UrlPaths, query : UrlQueries ]

PathOf(p) ==
    p.lead \o p.slug \o (IF p.hyphen THEN << "-" >> ELSE << >>) \o p.id
        \o p.trail

UrlOf(parts) ==
    parts.scheme \o parts.host \o PathOf(parts.path) \o parts.query

UrlInputs == { UrlOf(parts) : parts \in UrlParts }

\* extract_id_from_url has just been called with a URL
UrlInit ==
    /\ svc_op = "extract_id_from_url"
    /\ url_or_id \in UrlInputs
    /\ query = << >>
    /\ svc_pc = "start"
    /\ page_id = << >>
    /\ parser_calls = << >>
    /\ repo_calls = << >>
    /\ page = None
    /\ content = << >>
    /\ svc_result = NoResult
    /\ svc_error = None
    /\ RepoIdle
    /\ AuxIdle

\* NotionAPIUrlParser.extract_id_from_url returns or raises
ExtractId ==
    /\ svc_op = "extract_id_from_url" /\ svc_pc = "start"
    /\ SetPageId(PageRef(TRUE, ExtractIdFromUrl(url_or_id)), "returned")

UrlNext == ExtractId

SpecUrl == UrlInit /\ [][UrlNext]_vars

\* the parts a URL of this run may have been written from
PartsOfUrl == { parts \in UrlParts : UrlOf(parts) = url_or_id }

\* the string names a host, and the host is notion.so or www.notion.so
HostIsNotion(parts) ==
    parts.scheme # << >> /\ parts.host \in { S_notion_so, S_www_notion_so }

\* nothing is left of the path once its slashes are stripped
PathIsEmpty(parts) == ~parts.path.hyphen /\ parts.path.id = << >>

ExtractIdDone == svc_op = "extract_id_from_url" /\ svc_pc # "start"

\* C11: extract_id_from_url fails with "Not a valid Notion URL" exactly when
\* the string has no host or its host is not notion.so / www.notion.so, fails
\* with "Could not extract ID from URL" exactly when the host is valid and
\* the path is empty after stripping slashes, and succeeds in all other cases.
C11_FailureCases ==
    ExtractIdDone =>
        \A parts \in PartsOfUrl :
            IF ~HostIsNotion(parts)
            THEN svc_pc = "raised" /\ svc_error = "Not a valid Notion URL"
            ELSE IF PathIsEmpty(parts)
            THEN svc_pc = "raised"
                 /\ svc_error = "Could not extract ID from URL"
            ELSE svc_pc = "returned" /\ svc_error = None

\* https://notion.so// : a valid host and a path of slashes only
C11_Witness ==
    /\ ExtractIdDone
    /\ url_or_id = S_https \o S_notion_so \o << "/", "/" >>
    /\ svc_pc = "raised"
    /\ svc_error = "Could not extract ID from URL"

\* C12: for https://[www.]notion.so/<slug>-<id>[/][?query] the parser returns
\* <id>, the text after the last hyphen of the path without trailing slash
\* and query; for a path without hyphen it returns the whole stripped path.
C12_IdAfterLastHyphen ==
    ExtractIdDone =>
        \A parts \in PartsOfUrl :
            (parts.scheme = S_https /\ HostIsNotion(parts)
                 /\ ~PathIsEmpty(parts))
                => svc_pc = "returned" /\ page_id = parts.path.id

\* https://www.notion.so/my-pg-ab1/?p=a-b : hyphens in slug and query
C12_Witness ==
    /\ ExtractIdDone
    /\ url_or_id = S_https \o S_www_notion_so
                       \o << "/", "m", "y", "-", "p", "g", "-", "a", "b", "1",
                             "/", "?", "p", "=", "a", "-", "b" >>
    /\ svc_pc = "returned"
    /\ page_id = << "a", "b", "1" >>

\* ========================================================= NotionAPIClient
\* SpecClient runs one operation of the transport client twice, once with
\* debug enabled and once with debug disabled, each run against a remote
\* answer of its own.
\* api_client.py, lines 49 and 62: the default page_size
page_size == 100

ClientOps ==
    { "get_page", "get_block_children", "get_database", "query_database" }

\* the value None where a dict is expected
NoDict == [none |-> TRUE]

\* start_cursor: None (the default), the empty string, a cursor
StartCursorArgs == { None, "", "c1" }
FilterParamArgs == { NoDict, [filter |-> "f1"] }

\* the arguments an operation reads; the others keep their defaults
ClientArgs(o) ==
    [ id : { "x1" },
      start_cursor :
        IF o \in { "get_block_children", "query_database" }
        THEN StartCursorArgs ELSE { None },
      filter_params :
        IF o = "query_database" THEN FilterParamArgs ELSE { NoDict } ]

\* the truth value Python gives a str or None
TruthyStr(s) == s # None /\ s # ""

\* a status of a final response of the remote system
HttpStatuses == { 200, 400, 404, 429, 500, 503 }
\* the response text: a JSON document or something else
Bodies == { "{object}", "{message}", "<html>" }
HttpResponses == [ status : HttpStatuses, body : Bodies ]
NoResponse == [ status |-> 0, body |-> "none" ]

\* requests.Response.raise_for_status raises for 4xx and 5xx
RaisesForStatus(response) == response.status >= 400 /\ response.status < 600
\* requests.Response.json parses the text or raises
IsJson(response) == response.body # "<html>"

\* get_block_children, lines 51-53
BlockChildrenParams(args) ==
    IF TruthyStr(args.start_cursor)
    THEN [ page_size |-> page_size, start_cursor |-> args.start_cursor ]
    ELSE [ page_size |-> page_size ]

\* query_database, lines 64-68
QueryData(args) ==
    LET data == IF args.filter_params # NoDict
                THEN args.filter_params @@ [ page_size |-> page_size ]
                ELSE [ page_size |-> page_size ]
    IN  IF TruthyStr(args.start_cursor)
        THEN ("start_cursor" :> args.start_cursor) @@ data
        ELSE data

\* the arguments of requests.request, lines 25-31
HttpRequest(method, endpoint, params, data) ==
    [ method |-> method, endpoint |-> endpoint, params |-> params,
      json |-> data ]

\* lines 44-70: the request each operation hands to _make_request
RequestOf(o, args) ==
    CASE o = "get_page" ->
            HttpRequest("GET", << "/pages/", args.id >>, NoDict, NoDict)
      [] o = "get_block_children" ->
            HttpRequest("GET", << "/blocks/", args.id, "/children" >>,
                        BlockChildrenParams(args), NoDict)
      [] o = "get_database" ->
            HttpRequest("GET", << "/databases/", args.id >>, NoDict, NoDict)
      [] o = "query_database" ->
            HttpRequest("POST", << "/databases/", args.id, "/query" >>,
                        NoDict, QueryData(args))

\* lines 38-40: the three lines printed for a response
DebugLines(endpoint, response_json) ==
    << << "--- Notion API Response for", endpoint >>,
       << "json.dumps", response_json >>,
       << "---" >> >>

NewRun ==
    [ pc |-> "start", http |-> << >>, response |-> NoResponse,
      result |-> None, error |-> None, printed |-> << >> ]

\* an operation has just been invoked on a client with debug on and on a
\* client with debug off
ClientInit ==
    /\ cl_op \in ClientOps
    /\ cl_args \in ClientArgs(cl_op)
    /\ cl_run = [ debug \in BOOLEAN |-> NewRun ]
    /\ RepoIdle /\ SvcIdle /\ MapIdle /\ AppIdle /\ LabIdle

SetRun(debug, run) ==
    /\ cl_run' = [ cl_run EXCEPT ![debug] = run ]
    /\ UNCHANGED << cl_op, cl_args, repoVars, svcVars, labVars, mapVars, appVars >>

\* lines 25-31: requests.request returns the remote system's response
SendRequest(debug) ==
    /\ cl_op \in ClientOps /\ cl_run[debug].pc = "start"
    /\ \E response \in HttpResponses :
          SetRun(debug, [ cl_run[debug] EXCEPT
              !.pc = "responded",
              !.http = Append(@, RequestOf(cl_op, cl_args)),
              !.response = response ])

\* lines 25-31: requests.request raises, no response arrives
SendRequestFails(debug) ==
    /\ cl_op \in ClientOps /\ cl_run[debug].pc = "start"
    /\ SetRun(debug, [ cl_run[debug] EXCEPT
          !.pc = "raised",
          !.http = Append(@, RequestOf(cl_op, cl_args)),
          !.error = "ConnectionError" ])

\* variant of RaiseForStatus that sends the request a second time
RaiseForStatus_Retry(debug) ==
    /\ cl_op \in ClientOps /\ cl_run[debug].pc = "responded"
    /\ RaisesForStatus(cl_run[debug].response)
    /\ IF Len(cl_run[debug].http) < 2
       THEN \E response \in HttpResponses :
               SetRun(debug, [ cl_run[debug] EXCEPT
                   !.http = Append(@, RequestOf(cl_op, cl_args)),
                   !.response = response ])
       ELSE SetRun(debug, [ cl_run[debug] EXCEPT
               !.pc = "raised", !.error = "HTTPError" ])

\* line 33: response.raise_for_status() raises
RaiseForStatus(debug) ==
    /\ cl_op \in ClientOps /\ cl_run[debug].pc = "responded"
    /\ RaisesForStatus(cl_run[debug].response)
    /\ SetRun(debug, [ cl_run[debug] EXCEPT
          !.pc = "raised", !.error = "HTTPError" ])

\* line 34: response.json() raises
JsonFails(debug) ==
    /\ cl_op \in ClientOps /\ cl_run[debug].pc = "responded"
    /\ ~RaisesForStatus(cl_run[debug].response)
    /\ ~IsJson(cl_run[debug].response)
    /\ SetRun(debug, [ cl_run[debug] EXCEPT
          !.pc = "raised", !.error = "JSONDecodeError" ])

\* variant of ReturnJson that prints whatever the debug flag
ReturnJson_AlwaysPrints(debug) ==
    /\ cl_op \in ClientOps /\ cl_run[debug].pc = "responded"
    /\ ~RaisesForStatus(cl_run[debug].response)
    /\ IsJson(cl_run[debug].response)
    /\ SetRun(debug, [ cl_run[debug] EXCEPT
          !.pc = "returned",
          !.printed = DebugLines(RequestOf(cl_op, cl_args).endpoint,
                                 cl_run[debug].response.body),
          !.result = cl_run[debug].response.body ])

\* lines 34-42: the parsed response is printed if debug, and returned
ReturnJson(debug) ==
    /\ cl_op \in ClientOps /\ cl_run[debug].pc = "responded"
    /\ ~RaisesForStatus(cl_run[debug].response)
    /\ IsJson(cl_run[debug].response)
    /\ SetRun(debug, [ cl_run[debug] EXCEPT
          !.pc = "returned",
          !.printed = IF debug
                      THEN DebugLines(RequestOf(cl_op, cl_args).endpoint,
                                      cl_run[debug].response.body)
                      ELSE << >>,
          !.result = cl_run[debug].response.body ])

ClientNext ==
    \E debug \in BOOLEAN :
        \/ SendRequest(debug)
        \/ SendRequestFails(debug)
        \/ RaiseForStatus(debug)
        \/ JsonFails(debug)
        \/ ReturnJson(debug)

SpecClient == ClientInit /\ [][ClientNext]_vars

RunDone(run) == run.pc \in { "returned", "raised" }
Is2xx(response) == response.status >= 200 /\ response.status <= 299

C19_DebugObservational ==
    cl_op \in ClientOps =>
        /\ cl_run[FALSE].printed = << >>
        /\ (RunDone(cl_run[TRUE]) /\ RunDone(cl_run[FALSE])
               /\ cl_run[TRUE].response = cl_run[FALSE].response)
             => /\ cl_run[TRUE].pc = cl_run[FALSE].pc
                /\ cl_run[TRUE].result = cl_run[FALSE].result
                /\ cl_run[TRUE].error = cl_run[FALSE].error
                /\ cl_run[TRUE].http = cl_run[FALSE].http
                /\ Len(cl_run[TRUE].http) = 1

\* both runs returned the same document; only the debug run printed
C19_Witness ==
    /\ cl_op = "get_block_children"
    /\ cl_run[TRUE].pc = "returned" /\ cl_run[FALSE].pc = "returned"
    /\ cl_run[TRUE].response = cl_run[FALSE].response
    /\ cl_run[TRUE].result = "{object}"
    /\ Len(cl_run[TRUE].printed) = 3
    /\ cl_run[FALSE].printed = << >>

\* ============================================ entry points: CLI, factory, MCP
\* SpecApp follows one call of an entry point: the command line (main), the
\* library function notion_get_page, the factory create_notion_page_service
\* followed by its caller's get_page_with_content, and the two MCP tools.
\* The service and the repository behind it answer as SpecService and Spec
\* allow them to.
\* factory.py, line 9: max_depth=3
FactoryMaxDepth == 3
\* cli.py, line 116: --max-depth, default=3
CliMaxDepth == 3

CliEntries == { "main", "notion_get_page" }
McpTools == { "get_notion_page", "search_notion_blocks" }
AppEntries == CliEntries \cup { "create_notion_page_service" } \cup McpTools

\* an optional argument: left out, or given with a value
Absent == [ given |-> FALSE, value |-> 0 ]
Given(v) == [ given |-> TRUE, value |-> v ]
\* the value of a max_depth parameter: None or an int
NoneDepth == [ none |-> TRUE, value |-> 0 ]
Depth(v) == [ none |-> FALSE, value |-> v ]

MaxDepthArgs == { Absent } \cup { Given(v) : v \in { 0, 1, 4 } }

\* a page URL, a URL the parser refuses, and a literal id
AppUrls ==
    { S_https \o S_www_notion_so \o << "/", "p", "g", "-", "a", "b", "1" >>,
      S_https \o << "n", "o", "t" >> \o S_notion_so
           \o << "/", "p", "g", "-", "a", "b", "1" >>,
      << "a", "b", "1" >> }

\* api_key: whether the argument or NOTION_API_KEY provides a key
AppArgs(entry) ==
    [ url : AppUrls,
      max_depth : IF entry \in McpTools THEN { Absent } ELSE MaxDepthArgs,
      verbose : IF entry \in CliEntries THEN BOOLEAN ELSE { FALSE },
      api_key : IF entry \in CliEntries THEN BOOLEAN ELSE { TRUE },
      query : IF entry = "search_notion_blocks" THEN Queries ELSE { << >> } ]

\* no repository has been constructed yet
NoRepo == [ built |-> FALSE, max_depth |-> NoneDepth ]
\* NotionAPIPageRepository.__init__
NewRepo(depth) == [ built |-> TRUE, max_depth |-> depth ]

\* the locals of the entry point and what it hands back
NewOut ==
    [ max_depth |-> NoneDepth,  \* the max_depth parameter of notion_get_page
      page_id |-> << >>, page |-> None, content |-> << >>,
      error |-> None,           \* the exception raised inside the entry point
      failed |-> None,          \* the step that raised it
      printed |-> << >>,
      value |-> None,           \* the value returned
      exit_code |-> None ]

AppInit ==
    /\ app_entry \in AppEntries
    /\ app_args \in AppArgs(app_entry)
    /\ app_pc = "start"
    /\ app_repo = NoRepo
    /\ app_out = NewOut
    /\ RepoIdle /\ SvcIdle /\ ClientIdle /\ MapIdle /\ LabIdle

AppStep(pc, repo, out) ==
    /\ app_pc' = pc
    /\ app_repo' = repo
    /\ app_out' = out
    /\ UNCHANGED << app_entry, app_args, repoVars, svcVars, labVars, clientVars,
                    mapVars >>

\* an exception leaves the current step
AppRaise(step, e) ==
    AppStep("raising", app_repo,
            [ app_out EXCEPT !.error = e, !.failed = step ])

\* cli.py, lines 116-123: argparse fills in the default, main calls
\* notion_get_page with args.max_depth
MainParseArgs ==
    /\ app_entry = "main" /\ app_pc = "start"
    /\ AppStep("notion_get_page", app_repo,
               [ app_out EXCEPT !.max_depth =
                    IF app_args.max_depth.given
                    THEN Depth(app_args.max_depth.value)
                    ELSE Depth(CliMaxDepth) ])

\* cli.py, line 29: notion_get_page is called directly; max_depth=None
CallNotionGetPage ==
    /\ app_entry = "notion_get_page" /\ app_pc = "start"
    /\ AppStep("notion_get_page", app_repo,
               [ app_out EXCEPT !.max_depth =
                    IF app_args.max_depth.given
                    THEN Depth(app_args.max_depth.value)
                    ELSE NoneDepth ])

\* cli.py, lines 41-44: no key in the arguments nor in the environment
NoApiKey ==
    /\ app_pc = "notion_get_page" /\ ~app_args.api_key
    /\ AppRaise("api_key", "ValueError")

\* cli.py, lines 50-62: the repository is constructed with max_depth=max_depth,
\* directly (verbose) or by the factory (factory.py, line 23)
BuildService ==
    /\ app_pc = "notion_get_page" /\ app_args.api_key
    /\ AppStep("service", NewRepo(app_out.max_depth), app_out)

\* factory.py, lines 9-27: create_notion_page_service called by a client
CallFactory ==
    /\ app_entry = "create_notion_page_service" /\ app_pc = "start"
    /\ AppStep("service",
               NewRepo(IF app_args.max_depth.given
                       THEN Depth(app_args.max_depth.value)
                       ELSE Depth(FactoryMaxDepth)),
               app_out)

\* mcp/server.py, line 28: the tools' service, made when the module loads
McpCreateService ==
    /\ app_entry \in McpTools /\ app_pc = "start"
    /\ AppStep("service", NewRepo(Depth(FactoryMaxDepth)), app_out)

\* get_page_with_content, lines 27-30
AppResolve ==
    /\ app_pc = "service"
    /\ LET ref == PageRefOfUrlOrId(app_args.url).r
       IN  IF ref.raised
           THEN AppRaise("resolve", "ValueError")
           ELSE AppStep("get_page", app_repo,
                        [ app_out EXCEPT !.page_id = ref.value ])

\* get_page_with_content, line 32
AppGetPage ==
    /\ app_pc = "get_page"
    /\ AppStep("get_page_content", app_repo,
               [ app_out EXCEPT !.page = PageStub ])

\* line 32: the transport call or the mapping of the page raises
AppGetPageFails ==
    /\ app_pc = "get_page"
    /\ \E e \in RepoErrors : AppRaise("get_page", e)

\* repositories.py, line 23: current_depth >= self.max_depth with None
AppDepthTypeError ==
    /\ app_pc = "get_page_content" /\ app_repo.max_depth.none
    /\ AppRaise("get_page_content", "TypeError")

\* get_page_with_content, line 33: blocks down to the repository's bound
AppGetContent ==
    /\ app_pc = "get_page_content" /\ ~app_repo.max_depth.none
    /\ \E forest \in Forests :
          /\ Levels(forest) <= app_repo.max_depth.value
          /\ AppStep("have_content", app_repo,
                     [ app_out EXCEPT !.content = forest ])

\* line 33: a transport call or the mapping of a block raises
AppGetContentFails ==
    /\ app_pc = "get_page_content" /\ ~app_repo.max_depth.none
    /\ \E e \in RepoErrors : AppRaise("get_page_content", e)

\* cli.py, lines 68-103: the page and one line per top-level block
PageLines(p, blocks) ==
    << << "Page Title", p.id >> >>
        \o [ k \in DOMAIN blocks |-> << "-", blocks[k].block_type >> ]

PrintPage ==
    /\ app_entry \in CliEntries /\ app_pc = "have_content"
    /\ AppStep("printed", app_repo,
               [ app_out EXCEPT
                    !.printed = PageLines(app_out.page, app_out.content) ])

\* cli.py, line 103: notion_get_page ends, returning None
NotionGetPageReturns ==
    /\ app_entry = "notion_get_page" /\ app_pc = "printed"
    /\ AppStep("returned", app_repo, app_out)

\* cli.py, line 129
MainReturns ==
    /\ app_entry = "main" /\ app_pc = "printed"
    /\ AppStep("returned", app_repo, [ app_out EXCEPT !.exit_code = 0 ])

\* variant of MainCatches that lets the exception leave main
MainCatches_Propagates ==
    /\ app_entry = "main" /\ app_pc = "raising"
    /\ AppStep("raised", app_repo, app_out)

\* cli.py, lines 124-127: except Exception
MainCatches ==
    /\ app_entry = "main" /\ app_pc = "raising"
    /\ AppStep("returned", app_repo,
               [ app_out EXCEPT
                    !.printed = Append(@, << "Error:", app_out.error >>),
                    !.exit_code = 1 ])

\* notion_get_page and the factory's caller have no except clause
AppPropagates ==
    /\ app_entry \in { "notion_get_page", "create_notion_page_service" }
    /\ app_pc = "raising"
    /\ AppStep("raised", app_repo, app_out)

\* the factory's caller has page and content
ServiceCallerReturns ==
    /\ app_entry = "create_notion_page_service" /\ app_pc = "have_content"
    /\ AppStep("returned", app_repo,
               [ app_out EXCEPT !.value = << app_out.page, app_out.content >> ])

RECURSIVE format_as_dict(_)
\* notion_formatters.py, lines 12-38
format_as_dict(block) ==
    LET nested == block.has_children /\ block.children # << >>
    IN  [ keys |-> { "type" }
                    \cup (IF IsTextOrCode(block) THEN { "content" } ELSE { })
                    \cup (IF block.cls \in CodeBlockClasses
                          THEN { "language" } ELSE { })
                    \cup (IF nested THEN { "children" } ELSE { }),
          type |-> block.block_type,
          content |-> IF IsTextOrCode(block) THEN block.text ELSE None,
          language |-> IF block.cls \in CodeBlockClasses
                       THEN block.language ELSE None,
          children |-> IF nested
                       THEN [ k \in DOMAIN block.children |->
                                format_as_dict(block.children[k]) ]
                       ELSE << >> ]

\* mcp/server.py, lines 44-52: the dict get_notion_page returns
PageData(p, blocks) ==
    [ keys |-> { "title", "url", "created_time", "last_edited_time",
                 "content" },
      page |-> p.id,
      content |-> [ k \in DOMAIN blocks |-> format_as_dict(blocks[k]) ] ]

\* mcp/server.py, lines 55 and 104: the dict that reports an error
ErrorRecord(prefix, e) ==
    [ keys |-> { "error" }, error |-> << prefix, e >> ]

\* mcp/server.py, lines 41-52
GetNotionPageReturns ==
    /\ app_entry = "get_notion_page" /\ app_pc = "have_content"
    /\ AppStep("returned", app_repo,
               [ app_out EXCEPT
                    !.value = PageData(app_out.page, app_out.content) ])

\* mcp/server.py, lines 62-101: search_block is the same function as the
\* service's
SearchNotionBlocksReturns ==
    /\ app_entry = "search_notion_blocks" /\ app_pc = "have_content"
    /\ AppStep("returned", app_repo,
               [ app_out EXCEPT
                    !.value = SearchEach(app_out.content, app_args.query) ])

\* variant of ToolCatches without the except clause
ToolCatches_Propagates ==
    /\ app_entry \in McpTools /\ app_pc = "raising"
    /\ AppStep("raised", app_repo, app_out)

\* mcp/server.py, lines 53-55 and 102-104: except Exception
ToolCatches ==
    /\ app_entry \in McpTools /\ app_pc = "raising"
    /\ AppStep("returned", app_repo,
               [ app_out EXCEPT !.value =
                    IF app_entry = "get_notion_page"
                    THEN ErrorRecord("Could not fetch page - ", app_out.error)
                    ELSE << ErrorRecord("Could not search page - ",
                                        app_out.error) >> ])

AppNext ==
    \/ MainParseArgs \/ CallNotionGetPage \/ NoApiKey \/ BuildService
    \/ CallFactory \/ McpCreateService
    \/ AppResolve \/ AppGetPage \/ AppGetPageFails
    \/ AppDepthTypeError \/ AppGetContent \/ AppGetContentFails
    \/ PrintPage \/ NotionGetPageReturns \/ MainReturns \/ MainCatches
    \/ AppPropagates \/ ServiceCallerReturns
    \/ GetNotionPageReturns \/ SearchNotionBlocksReturns \/ ToolCatches

SpecApp == AppInit /\ [][AppNext]_vars

\* C14: whenever the caller supplies no max_depth -- the command line without
\* --max-depth, create_notion_page_service without max_depth, notion_get_page
\* without max_depth -- the page repository is constructed with depth bound 3
\* and content retrieval proceeds with that bound.
C14_DefaultDepthIsThree ==
    (app_entry \in CliEntries \cup { "create_notion_page_service" }
         /\ ~app_args.max_depth.given)
      => /\ app_repo.built => app_repo.max_depth = Depth(3)
         /\ app_out.failed = "get_page_content" => app_out.error # "TypeError"

\* C20: the MCP tools get_notion_page and search_notion_blocks never raise:
\* when URL resolution, a transport call or mapping fails, the tool returns
\* an error record (a dict with the one key "error", resp. a one-element list
\* of such a dict) and no partial content; only when every step succeeded
\* does it return page data resp. match records.
C20_ToolsReturnErrorRecords ==
    app_entry \in McpTools =>
        /\ app_pc # "raised"
        /\ app_pc = "returned" =>
             LET v == app_out.value IN
             IF app_out.failed # None
             THEN IF app_entry = "get_notion_page"
                  THEN v.keys = { "error" }
                  ELSE Len(v) = 1 /\ v[1].keys = { "error" }
             ELSE IF app_entry = "get_notion_page"
                  THEN /\ "error" \notin v.keys
                       /\ Len(v.content) = Len(app_out.content)
                  ELSE \A k \in DOMAIN v :
                          "error" \notin v[k].keys /\ "type" \in v[k].keys

\* search_notion_blocks, the content retrieval having failed
C20_Witness ==
    /\ app_entry = "search_notion_blocks"
    /\ app_pc = "returned"
    /\ app_out.failed = "get_page_content"
    /\ app_out.value = << ErrorRecord("Could not search page - ", "HTTPError") >>

\* ===================================================== from_api constructors
\* SpecMap hands one JSON document to a from_api constructor, up to twice,
\* asks the entities for their display text, and lets a client write to a
\* map (dict) an entity holds.  Maps live in m_heap and are held by address;
\* 0 stands for None.  A str is the sequence of the pieces it is joined from.
\* one element of a rich_text array
Segment(type, text, has_plain_text, plain_text, annotations) ==
    [ type |-> type, content |-> text, has_plain_text |-> has_plain_text,
      plain_text |-> plain_text, annotations |-> annotations ]

TextSegment(s, annotations) == Segment("text", << s >>, TRUE, << s >>, annotations)

\* tests/test_notion_entities.py, lines 316-344, mention and equation
\* segments, and a text segment without plain_text
SegmentLists ==
    { << >>,
      << TextSegment("First ", 0), TextSegment("second", 0) >>,
      << TextSegment("a", 1), Segment("mention", << >>, TRUE, << "@u" >>, 2),
         TextSegment("b", 0) >>,
      << Segment("equation", << >>, TRUE, << "x^2" >>, 0) >>,
      << Segment("text", << "c" >>, FALSE, << >>, 1), TextSegment("d", 2) >> }

\* a JSON document: its rich_text arrays by key (one per property for a
\* page) and the addresses of its other maps ("properties" of a database)
JsonDoc(kind, type, rich, maps) ==
    [ kind |-> kind, id |-> "x1", type |-> type, has_children |-> FALSE,
      rich |-> rich, maps |-> maps ]
Group(name, segs) == [ name |-> name, segs |-> segs ]

MapInputs ==
    { JsonDoc("rich_text", "", << Group("", s) >>, << >>) : s \in SegmentLists }
    \cup { JsonDoc("block", t, << Group(t, s) >>, << >>) :
              t \in { "paragraph", "heading_1", "heading_2", "heading_3",
                      "bulleted_list_item", "numbered_list_item", "to_do",
                      "code" },
              s \in SegmentLists }
    \cup { JsonDoc("block", t, << >>, << >>) :
              t \in { "image", "some_future_block" } }
    \cup { JsonDoc("page", "", ps, << >>) :
              ps \in { << >> }
                \cup { << Group("title", s) >> : s \in SegmentLists }
                \cup { << Group("rich_text", s) >> : s \in SegmentLists }
                \cup { << Group("checkbox", << >>), Group("title", s) >> :
                          s \in SegmentLists }
                \cup { << Group("rich_text", s), Group("title", s),
                          Group("rich_text", << TextSegment("e", 0) >>) >> :
                          s \in SegmentLists }
                \cup { << Group("title", s), Group("multi_select", << >>) >> :
                          s \in SegmentLists } }
    \cup { JsonDoc("database", "", << Group("title", s) >>, << 3 >>) :
              s \in SegmentLists }

\* the maps of the document: two annotations maps and a database schema
MapHeap == << "bold", "italic", "schema" >>

\* value_objects.py, lines 32-48
RichTextFromApi(data) ==
    LET items == SelectSeq(data, LAMBDA item : item.type = "text")
    IN  [ k \in DOMAIN items |->
            [ content |-> items[k].content,
              plain_text |-> IF items[k].has_plain_text
                             THEN items[k].plain_text ELSE items[k].content,
              annotations |-> items[k].annotations,
              href |-> None ] ]

RECURSIVE PlainText_Reversed(_)
\* variant of PlainText that joins from the last entry to the first
PlainText_Reversed(rich_text) ==
    IF rich_text = << >> THEN << >>
    ELSE PlainText_Reversed(Tail(rich_text)) \o Head(rich_text).plain_text

RECURSIVE PlainText(_)
\* ''.join(text.plain_text for text in rich_text)
PlainText(rich_text) ==
    IF rich_text = << >> THEN << >>
    ELSE Head(rich_text).plain_text \o PlainText(Tail(rich_text))

\* an entity: its class, scalar fields, rich text lists and other maps
Entity(cls, doc, block_type, level, rich) ==
    [ cls |-> cls, id |-> doc.id, block_type |-> block_type, level |-> level,
      rich |-> [ k \in DOMAIN rich |->
                    [ name |-> rich[k].name,
                      entries |-> RichTextFromApi(rich[k].segs) ] ],
      maps |-> doc.maps ]

\* entities.py, lines 18-46, and the from_api of the class dispatched to
BlockDocFromApi(doc) ==
    LET r == BlockFromApi(WireBlock(doc.id, doc.type, doc.has_children))
    IN  IF r.raised THEN r
        ELSE Value(Entity(r.value.cls, doc, r.value.block_type,
                          CASE doc.type = "heading_1" -> 1
                            [] doc.type = "heading_2" -> 2
                            [] doc.type = "heading_3" -> 3
                            [] OTHER -> 0,
                          IF r.value.cls \in TextBlockClasses
                          THEN << Group("rich_text", doc.rich[1].segs) >>
                          ELSE << >>))

\* entities.py, lines 194-212, and value_objects.py, lines 97-149
PageDocFromApi(doc) ==
    LET r == PageFromApi(WirePage(doc.id,
                                  [ k \in DOMAIN doc.rich |-> doc.rich[k].name ]))
    IN  IF r.raised THEN r
        ELSE Value(Entity("Page", doc, None, 0,
                          [ k \in DOMAIN doc.rich |->
                              Group(r.value.properties[k].type,
                                    doc.rich[k].segs) ]))

\* the from_api constructor for the document
FromApiOf(doc) ==
    CASE doc.kind = "block" -> BlockDocFromApi(doc)
      [] doc.kind = "page" -> PageDocFromApi(doc)
      [] doc.kind = "database" ->
            Value(Entity("Database", doc, None, 0, doc.rich))
      [] doc.kind = "rich_text" ->
            Value(Entity("list", doc, None, 0, doc.rich))

\* variant of get_title that takes the first property, whatever its type
get_title_FirstProperty(p) ==
    IF p.rich = << >> THEN << >> ELSE PlainText(p.rich[1].entries)

\* entities.py, lines 214-219: Page.get_title
get_title(p) ==
    LET titles == SelectSeq(p.rich, LAMBDA prop : prop.name = "title")
    IN  IF titles = << >> THEN << >> ELSE PlainText(titles[1].entries)

MapInit ==
    /\ m_input \in MapInputs
    /\ m_heap = MapHeap
    /\ m_out = << >>
    /\ m_text = << >>
    /\ RepoIdle /\ SvcIdle /\ ClientIdle /\ AppIdle /\ LabIdle

\* a from_api constructor is called on the document
FromApi ==
    /\ Len(m_out) < 2
    /\ m_out' = Append(m_out, FromApiOf(m_input))
    /\ UNCHANGED << m_input, m_heap, m_text, repoVars, svcVars, labVars, clientVars,
                    appVars >>

\* get_plain_text of each rich text holder of the next entity (entities.py,
\* lines 55-57 and 250-252, value_objects.py, lines 111-113 and 130-132), and
\* get_title if it is a page
GetDisplayText ==
    /\ Len(m_text) < Len(m_out)
    /\ LET r == m_out[Len(m_text) + 1]
       IN  /\ ~r.raised
           /\ m_text' = Append(m_text,
                 [ texts |-> [ k \in DOMAIN r.value.rich |->
                                 PlainText(r.value.rich[k].entries) ],
                   title |-> IF r.value.cls = "Page"
                             THEN get_title(r.value) ELSE << >> ])
    /\ UNCHANGED << m_input, m_heap, m_out, repoVars, svcVars, labVars, clientVars,
                    appVars >>

\* the addresses of the maps an entity holds
MapsOf(e) ==
    (UNION { { e.rich[i].entries[k].annotations :
                 k \in DOMAIN e.rich[i].entries } : i \in DOMAIN e.rich }
       \cup { e.maps[k] : k \in DOMAIN e.maps }) \ { 0 }

\* a client writes to a map it reached through an entity
WriteToMap ==
    /\ \E j \in DOMAIN m_out :
          /\ ~m_out[j].raised
          /\ \E a \in MapsOf(m_out[j].value) :
                /\ m_heap[a] # "written"
                /\ m_heap' = [ m_heap EXCEPT ![a] = "written" ]
    /\ UNCHANGED << m_input, m_out, m_text, repoVars, svcVars, labVars, clientVars,
                    appVars >>

MapNext == FromApi \/ GetDisplayText \/ WriteToMap

SpecMap == MapInit /\ [][MapNext]_vars

\* what a segment of the JSON shows: its plain_text, text.content without
SegmentText(segment) ==
    IF segment.has_plain_text THEN segment.plain_text ELSE segment.content

RECURSIVE JoinSegments(_, _)
\* the texts of the segments of the given types, joined in wire order
JoinSegments(segs, types) ==
    IF segs = << >> THEN << >>
    ELSE (IF Head(segs).type \in types THEN SegmentText(Head(segs)) ELSE << >>)
            \o JoinSegments(Tail(segs), types)

\* the display texts of every entity are the join, over the segments of the
\* given types, of the rich_text array the holder was made from
DisplayTextJoins(types) ==
    \A j \in DOMAIN m_text :
        \A k \in DOMAIN m_text[j].texts :
            m_text[j].texts[k] = JoinSegments(m_input.rich[k].segs, types)

\* C15 as stated: the display text is the concatenation, in wire order, of
\* the plain_text of every rich-text segment present in the JSON.
C15_EverySegmentShown == DisplayTextJoins({ "text", "mention", "equation" })

\* C15: the display text of a block, property or database title is the
\* concatenation, in wire order, of the plain_text (text.content where there
\* is none) of the segments of type "text" in its JSON; segments of other
\* types do not contribute.
C15_TextSegmentsShown == DisplayTextJoins({ "text" })

\* a paragraph of "a", a mention and "b" shows "ab"
C15_Witness ==
    /\ m_input.kind = "block" /\ m_input.type = "paragraph"
    /\ Len(m_input.rich[1].segs) = 3
    /\ Len(m_text) >= 1
    /\ m_text[1].texts = << << "a", "b" >> >>

\* the maps a JSON document holds
MapsOfDoc(doc) ==
    (UNION { { doc.rich[i].segs[k].annotations : k \in DOMAIN doc.rich[i].segs } :
                i \in DOMAIN doc.rich }
       \cup { doc.maps[k] : k \in DOMAIN doc.maps }) \ { 0 }

\* the field values of an entity, each map given by its present content
FieldValues(e) ==
    [ e EXCEPT
        !.rich = [ i \in DOMAIN e.rich |->
                    [ e.rich[i] EXCEPT !.entries =
                        [ k \in DOMAIN e.rich[i].entries |->
                            [ e.rich[i].entries[k] EXCEPT !.annotations =
                                IF @ = 0 THEN None ELSE m_heap[@] ] ] ] ],
        !.maps = [ k \in DOMAIN e.maps |-> m_heap[e.maps[k]] ] ]

\* C16: two from_api calls on the same JSON give entities with equal field
\* values that share no mutable state with each other or with the input.
C16_NoSharedMutableState ==
    /\ \A j \in DOMAIN m_out :
          ~m_out[j].raised
              => MapsOf(m_out[j].value) \cap MapsOfDoc(m_input) = { }
    /\ (Len(m_out) = 2 /\ ~m_out[1].raised /\ ~m_out[2].raised)
          => /\ FieldValues(m_out[1].value) = FieldValues(m_out[2].value)
             /\ MapsOf(m_out[1].value) \cap MapsOf(m_out[2].value) = { }

\* C17: Page.get_title returns the concatenated plain text of the property
\* whose type is title, and the empty string for a page without such a
\* property, a page without properties included.
C17_PageTitle ==
    m_input.kind = "page" =>
        \A j \in DOMAIN m_text :
            LET titles == SelectSeq(m_input.rich,
                                    LAMBDA prop : prop.name = "title")
            IN  m_text[j].title =
                    IF titles = << >> THEN << >>
                    ELSE JoinSegments(titles[1].segs, { "text" })

\* a page whose title is the second of three properties
C17_Witness ==
    /\ m_input.kind = "page"
    /\ Len(m_input.rich) = 3 /\ m_input.rich[1].name = "rich_text"
    /\ Len(m_text) >= 1
    /\ m_text[1].title = << "First ", "second" >>

\* C18: Block.from_api dispatches on the type tag: paragraph, heading_1/2/3
\* (level 1/2/3), bulleted_list_item, numbered_list_item and to_do give their
\* text block classes, code gives a CodeBlock carrying rich_text, language
\* and caption, and block_type equals the tag in every case.
C18_DispatchOnTypeTag ==
    m_input.kind = "block" =>
        \A j \in DOMAIN m_out :
            ~m_out[j].raised =>
                LET e == m_out[j].value
                    t == m_input.type
                IN  /\ e.block_type = t
                    /\ t = "paragraph" => e.cls = "ParagraphBlock"
                    /\ t = "heading_1" => e.cls = "HeadingBlock" /\ e.level = 1
                    /\ t = "heading_2" => e.cls = "HeadingBlock" /\ e.level = 2
                    /\ t = "heading_3" => e.cls = "HeadingBlock" /\ e.level = 3
                    /\ t = "bulleted_list_item"
                          => e.cls = "BulletedListItemBlock"
                    /\ t = "numbered_list_item"
                          => e.cls = "NumberedListItemBlock"
                    /\ t = "to_do" => e.cls = "ToDoBlock"
                    /\ t = "code" => /\ e.cls \in CodeBlockClasses
                                     /\ Len(e.rich) >= 1

\* the "Error:" lines printed so far
ErrorLines == SelectSeq(app_out.printed, LAMBDA line : line[1] = "Error:")

MaxQty == 2

S_TABLE == "SMALL-TABLE"
S_LAMP == "LAMP"

OrderLine(orderid, sku, qty) == [orderid |-> orderid, sku |-> sku, qty |-> qty]

\* order lines for the batch's product, and one for another product
OrderLines ==
    { OrderLine(o, S_TABLE, q) : o \in { "order-1", "order-2" }, q \in 0..MaxQty }
        \cup { OrderLine("order-1", S_LAMP, 1) }

\* an argument of allocate that is no OrderLine
NotAnOrderLine == [tuple |-> << "order-1", S_TABLE, 1 >>]

\* quantities a batch is created with or changed to
BatchQuantities == -1..MaxQty

RECURSIVE SumQty(_)
SumQty(lines) ==
    IF lines = {} THEN 0
    ELSE LET line == CHOOSE l \in lines : TRUE
         IN  line.qty + SumQty(lines \ { line })

allocated_quantity == SumQty(b_allocations)

available_quantity == b_purchased - allocated_quantity

\* variant of can_allocate that does not look at the available quantity
can_allocate_AnyQuantity(line) == S_TABLE = line.sku

can_allocate(line) == S_TABLE = line.sku /\ available_quantity >= line.qty

\* the record of a call: its argument, the allocations it started from, the
\* lines it removed, in order, what it raised, whether every quantity the
\* batch was given so far was non-negative, and whether the line had been
\* handed to allocate before
BatchCall(name, arg, nonneg, again) ==
    [name |-> name, arg |-> arg, before |-> b_allocations, removed |-> << >>,
     raised |-> None, nonneg |-> nonneg, again |-> again]

BatchInit ==
    /\ b_purchased \in BatchQuantities
    /\ b_allocations = {}
    /\ b_pc = "idle"
    /\ b_last = [name |-> "__init__", arg |-> b_purchased, before |-> {},
                 removed |-> << >>, raised |-> None,
                 nonneg |-> b_purchased >= 0, again |-> FALSE]
    /\ b_tried = {}
    /\ RepoIdle /\ SvcIdle /\ ClientIdle /\ MapIdle /\ AppIdle /\ AgentIdle

\* variant of Allocate that takes back a line it is handed again
Allocate_Toggles ==
    /\ b_pc = "idle"
    /\ \E line \in OrderLines :
          /\ b_allocations' = IF line \in b_allocations
                              THEN b_allocations \ { line }
                              ELSE IF can_allocate(line)
                                   THEN b_allocations \cup { line }
                                   ELSE b_allocations
          /\ b_tried' = b_tried \cup { line }
          /\ b_last' = BatchCall("allocate", line, b_last.nonneg, line \in b_tried)
    /\ UNCHANGED << b_purchased, b_pc, repoVars, svcVars, clientVars, mapVars,
                    appVars, agentVars >>

Allocate ==
    /\ b_pc = "idle"
    /\ \E line \in OrderLines :
          /\ b_allocations' = IF can_allocate(line)
                              THEN b_allocations \cup { line }
                              ELSE b_allocations
          /\ b_tried' = b_tried \cup { line }
          /\ b_last' = BatchCall("allocate", line, b_last.nonneg, line \in b_tried)
    /\ UNCHANGED << b_purchased, b_pc, repoVars, svcVars, clientVars, mapVars,
                    appVars, agentVars >>

AllocateTypeError ==
    /\ b_pc = "idle"
    /\ b_last' = [BatchCall("allocate", NotAnOrderLine, b_last.nonneg, FALSE)
                    EXCEPT !.raised = "TypeError"]
    /\ UNCHANGED << b_purchased, b_allocations, b_pc, b_tried, repoVars,
                    svcVars, clientVars, mapVars, appVars, agentVars >>

ChangePurchasedQuantity ==
    /\ b_pc = "idle"
    /\ \E qty \in BatchQuantities :
          /\ b_purchased' = qty
          /\ b_last' = BatchCall("change_purchased_quantity", qty,
                                 b_last.nonneg /\ qty >= 0, FALSE)
    /\ b_pc' = "changing"
    /\ b_tried' = {}
    /\ UNCHANGED << b_allocations, repoVars, svcVars, clientVars, mapVars,
                    appVars, agentVars >>

\* one round of the while loop: set.pop removes an arbitrary line, and
\* raises KeyError on an empty set
DeallocateOne ==
    /\ b_pc = "changing"
    /\ available_quantity < 0
    /\ IF b_allocations = {}
       THEN /\ b_last' = [b_last EXCEPT !.raised = "KeyError"]
            /\ b_pc' = "idle"
            /\ UNCHANGED b_allocations
       ELSE /\ \E line \in b_allocations :
                  /\ b_allocations' = b_allocations \ { line }
                  /\ b_last' = [b_last EXCEPT !.removed = Append(@, line)]
            /\ UNCHANGED b_pc
    /\ UNCHANGED << b_purchased, b_tried, repoVars, svcVars, clientVars,
                    mapVars, appVars, agentVars >>

ChangeReturns ==
    /\ b_pc = "changing"
    /\ available_quantity >= 0
    /\ b_pc' = "idle"
    /\ UNCHANGED << b_purchased, b_allocations, b_last, b_tried, repoVars,
                    svcVars, clientVars, mapVars, appVars, agentVars >>

BatchNext ==
    \/ Allocate
    \/ AllocateTypeError
    \/ ChangePurchasedQuantity
    \/ DeallocateOne
    \/ ChangeReturns

SpecBatch == BatchInit /\ [][BatchNext]_vars

\* the loop of change_purchased_quantity keeps running once entered
SpecBatchLive ==
    SpecBatch /\ WF_vars(DeallocateOne) /\ WF_vars(ChangeReturns)

\* the batch is in use and no method is being executed
BatchAtRest == b_pc = "idle"

\* what was available when the first k removals of the call had been made
AvailableAfter(k) ==
    b_purchased
        - SumQty(b_last.before \ { b_last.removed[i] : i \in 1..k })

\* between calls nothing is over-allocated; a call of
\* change_purchased_quantity removed each line while the available quantity
\* was negative, and none when it was not
C22_Safety ==
    (b_pc # "unused" /\ b_last.nonneg) =>
        /\ b_last.raised # "KeyError"
        /\ BatchAtRest => available_quantity >= 0
        /\ b_last.name = "change_purchased_quantity" =>
              /\ \A k \in 0..(Len(b_last.removed) - 1) : AvailableAfter(k) < 0
              /\ b_purchased - SumQty(b_last.before) >= 0
                    => b_allocations = b_last.before

\* C22: for a batch created with a non-negative quantity and changed only
\* to non-negative quantities, the available quantity is never negative
\* between calls, change_purchased_quantity removes allocations only while
\* the available quantity is negative, and every call of it terminates.
C22_NeverOverAllocated ==
    /\ []C22_Safety
    /\ (b_pc = "changing" /\ b_last.nonneg) ~> (b_pc = "idle")

\* a change of the quantity that took two allocations away
C22_Witness ==
    /\ b_pc = "idle" /\ b_last.nonneg
    /\ b_last.name = "change_purchased_quantity"
    /\ Len(b_last.removed) = 2
    /\ available_quantity >= 0

RECURSIVE InSubtree(_, _)
InSubtree(i, d) ==
    IF i = d THEN TRUE
    ELSE IF invs[i].parent = 0 THEN FALSE
    ELSE InSubtree(invs[i].parent, d)

\* the indices of the transport calls issued for the subtree of invocation c
SubtreeCalls(c) ==
    { j \in DOMAIN calls : InSubtree(calls[j].inv, c) }

\* the result page of invocation p in which its block number b arrived
PageOfBlock(p, b) ==
    LET js == CallsOf(p)
    IN  CHOOSE k \in DOMAIN js :
           /\ Len(ConcatResults(SubSeq(js, 1, k - 1))) < b
           /\ b <= Len(ConcatResults(SubSeq(js, 1, k)))

\* C24: child fetching is sequential and depth-first.  Every transport call
\* has been answered before the next is issued; the calls for the subtree of
\* a block that arrived in the k-th page of its parent all lie after the
\* parent's k-th call and before its (k+1)-th, and before every call for a
\* later sibling; and the block's invocation has ended by the time a later
\* sibling's invocation starts or the parent requests its next page.
C24_DepthFirstSequential ==
    op = "get_page_content" =>
        /\ Len(responses) = Len(calls)
        /\ \A c \in DOMAIN invs :
              invs[c].parent # 0 =>
                 LET p == invs[c].parent
                     js == CallsOf(p)
                     k == PageOfBlock(p, invs[c].index)
                 IN  /\ \A j \in SubtreeCalls(c) :
                           /\ js[k] < j
                           /\ Len(js) > k => j < js[k + 1]
                     /\ Len(js) > k => invs[c].status # "active"
                     /\ \A s \in DOMAIN invs :
                           (invs[s].parent = p /\ invs[s].index > invs[c].index) =>
                              /\ invs[c].status # "active"
                              /\ \A j \in SubtreeCalls(c), i \in SubtreeCalls(s) :
                                    j < i

\* a page whose result page holds two blocks with children: the children of
\* the first are fetched and returned before those of the second
C24_Witness ==
    /\ op = "get_page_content" /\ status = "returned"
    /\ Len(calls) = 3
    /\ calls[1].inv = 1 /\ calls[2].inv = 2 /\ calls[3].inv = 3
    /\ invs[2].parent = 1 /\ invs[3].parent = 1
    /\ invs[2].index < invs[3].index


\* ---------------------------------------------------------------------
\* The tool-calling loop of the blog agent (sandbox/lab01/blog_agent.py)
\* ---------------------------------------------------------------------

\* largest --compute argument
MaxCompute == 4

\* a tool_use block of a response; complete says whether its input holds
\* every argument the tool function is called with
ToolCall(name, complete) == [name |-> name, complete |-> complete]

AgentTools == { "write_blog_post", "read_recommendations", "summarize" }

\* the tool_use blocks of the responses the model may give
AgentResponses ==
    { << >> }
        \cup { << ToolCall(n, c) >> : n \in AgentTools, c \in BOOLEAN }
        \cup { << ToolCall("read_recommendations", TRUE),
                  ToolCall("write_blog_post", TRUE) >>,
               << ToolCall("write_blog_post", FALSE),
                  ToolCall("read_recommendations", TRUE) >> }

AgentInit ==
    /\ ag_compute \in 0..MaxCompute
    /\ ag_iter = 0
    /\ ag_pc = "loop"
    /\ ag_pending = << >>
    /\ ag_log = [calls |-> 0, executed |-> << >>, messages |-> 1,
                 error |-> None]
    /\ RepoIdle /\ SvcIdle /\ ClientIdle /\ MapIdle /\ AppIdle /\ BatchIdle

AgentStep(iter, pc, pending, log) ==
    /\ ag_iter' = iter
    /\ ag_pc' = pc
    /\ ag_pending' = pending
    /\ ag_log' = log
    /\ UNCHANGED << ag_compute, repoVars, svcVars, clientVars, mapVars,
                    appVars, batchVars >>

\* line 254: if compute_iterations >= args.compute
ComputeExhausted(iterations) == iterations >= ag_compute

\* lines 252-256: the loop counter reaches the bound: raise
MaximumComputeReached ==
    /\ ag_pc = "loop"
    /\ ComputeExhausted(ag_iter + 1)
    /\ AgentStep(ag_iter + 1, "raised", << >>,
                 [ag_log EXCEPT !.error = "Maximum compute loops reached"])

\* messages appended before the request: the prompt, in the first loop
PromptMessages(iterations) == IF iterations = 1 THEN 1 ELSE 0

\* lines 268-323: client.messages.create answers; without a tool_use block
\* in the answer the loop raises
CreateMessage ==
    /\ ag_pc = "loop"
    /\ ~ComputeExhausted(ag_iter + 1)
    /\ \E response \in AgentResponses :
          LET log == [ag_log EXCEPT !.calls = @ + 1,
                                    !.messages = @ + PromptMessages(ag_iter + 1)]
          IN  IF response = << >>
              THEN AgentStep(ag_iter + 1, "raised", << >>,
                             [log EXCEPT !.error = "No tool calls found"])
              ELSE AgentStep(ag_iter + 1, "dispatch", response, log)

\* lines 268-315, 391-393: client.messages.create raises
CreateMessageFails ==
    /\ ag_pc = "loop"
    /\ ~ComputeExhausted(ag_iter + 1)
    /\ AgentStep(ag_iter + 1, "raised", << >>,
                 [ag_log EXCEPT !.calls = @ + 1,
                                !.messages = @ + PromptMessages(ag_iter + 1),
                                !.error = "APIError"])

\* lines 325-348: write_blog_post is called and main returns
DispatchWriteBlogPost ==
    /\ ag_pc = "dispatch" /\ ag_pending # << >>
    /\ Head(ag_pending).name = "write_blog_post"
    /\ Head(ag_pending).complete
    /\ AgentStep(ag_iter, "returned", << >>,
                 [ag_log EXCEPT !.executed = Append(@, "write_blog_post"),
                                !.messages = @ + 1])

\* lines 349-368: read_recommendations is called, its result appended
DispatchReadRecommendations ==
    /\ ag_pc = "dispatch" /\ ag_pending # << >>
    /\ Head(ag_pending).name = "read_recommendations"
    /\ Head(ag_pending).complete
    /\ AgentStep(ag_iter, "dispatch", Tail(ag_pending),
                 [ag_log EXCEPT !.executed = Append(@, "read_recommendations"),
                                !.messages = @ + 2])

\* lines 353-354, 370-386: an unknown tool, or a missing argument (KeyError):
\* the error is appended as the tool's result and the next call is taken
DispatchFails ==
    /\ ag_pc = "dispatch" /\ ag_pending # << >>
    /\ \/ Head(ag_pending).name \notin { "write_blog_post", "read_recommendations" }
       \/ ~Head(ag_pending).complete
    /\ AgentStep(ag_iter, "dispatch", Tail(ag_pending),
                 [ag_log EXCEPT !.messages = @ + 2])

\* line 325: every tool call of the response is dispatched: next loop
NextLoop ==
    /\ ag_pc = "dispatch" /\ ag_pending = << >>
    /\ AgentStep(ag_iter, "loop", << >>, ag_log)

AgentNext ==
    \/ MaximumComputeReached
    \/ CreateMessage
    \/ CreateMessageFails
    \/ DispatchWriteBlogPost
    \/ DispatchReadRecommendations
    \/ DispatchFails
    \/ NextLoop

SpecAgent == AgentInit /\ [][AgentNext]_vars

\* C25: run with --compute N the loop makes at most N model calls, returns
\* as soon as a write_blog_post call was executed, and raises the
\* maximum-compute error only after N model calls without one.
C25_ComputeBound ==
    ag_pc # "unused" =>
        /\ ag_log.calls <= ag_compute
        /\ ag_pc = "returned" =>
              ag_log.executed[Len(ag_log.executed)] = "write_blog_post"
        /\ "write_blog_post" \in Range(ag_log.executed) => ag_pc = "returned"
        /\ (ag_pc = "raised" /\ ag_log.error = "Maximum compute loops reached") =>
              /\ ag_log.calls = ag_compute
              /\ "write_blog_post" \notin Range(ag_log.executed)


\* ------------------------------------------------------------ termination
\* get_page_content invoked on a repository built with any max_depth, the
\* negative ones included
ContentInit ==
    /\ op = "get_page_content"
    /\ max_depth \in -1..MaxDepthBound
    /\ stack = << Frame(1, "p", 0, "entry") >>
    /\ calls = << >>
    /\ responses = << >>
    /\ notices = << >>
    /\ invs = << InvRecord("p", 0, 0, 0) >>
    /\ status = "running"
    /\ result = NoResult
    /\ error = NoError
    /\ SvcIdle /\ AuxIdle

ContentNext ==
    \/ DepthLimitReturn
    \/ BeginContent
    \/ GetBlockChildren
    \/ GetBlockChildrenFails
    \/ MapBlockRaises
    \/ MapBlock
    \/ NextPage
    \/ ReturnBlocks

\* the method, once invoked, keeps executing its steps, and the transport
\* answers or raises
SpecLive == ContentInit /\ [][ContentNext]_vars /\ WF_vars(ContentNext)

\* the run is over, or the transport calls the model allows are used up
\* and the method waits at its next call
RunEnded ==
    \/ status # "running"
    \/ Len(calls) = MaxCalls /\ Top.pc = "call"

\* C26 as stated: get_page_content terminates for every integer max_depth,
\* whatever the has_children links, and never has more than max_depth + 1
\* invocations nested.
C26_TerminatesWithinDepth ==
    /\ [](op = "get_page_content" => Len(stack) <= max_depth + 1)
    /\ <>RunEnded

NonNegative(n) == IF n < 0 THEN 0 ELSE n

\* C26, amended: get_page_content terminates for every integer max_depth,
\* and never has more than max(max_depth, 0) + 1 invocations nested: the
\* outermost invocation exists also when max_depth is zero or negative.
C26_TerminatesWithinDepthOrOne ==
    /\ [](op = "get_page_content" => Len(stack) <= NonNegative(max_depth) + 1)
    /\ <>RunEnded

\* a block that is its own child, fetched down to the limit: b1 within b1
\* within the page, and the run returned
C26_Witness ==
    /\ op = "get_page_content" /\ status = "returned" /\ max_depth = 2
    /\ Len(invs) = 3
    /\ invs[2].id = "b1" /\ invs[3].id = "b1"
    /\ invs[3].parent = 2 /\ invs[2].parent = 1


\* C27: pagination makes progress.  No invocation of get_page_content or
\* query_database issues two transport calls with the same cursor, and
\* none but its first call asks for the first page (no cursor).
C27_PaginationProgress ==
    \A i \in DOMAIN invs :
       LET js == CallsOf(i)
       IN  /\ \A a, b \in DOMAIN js :
                a < b => calls[js[a]].cursor # calls[js[b]].cursor
           /\ \A b \in DOMAIN js : b > 1 => calls[js[b]].cursor # None


\* ------------------------------------------------ the children of a block
\* variant of ReadsChildren for a consumer that reads children untested
ReadsChildren_Untested(block) == TRUE

\* notion_services.py:55, 72 and notion_formatters.py:35
\* `block.has_children and block.children`: children is read only when
\* has_children is true
ReadsChildren(block) == block.has_children

\* C28: in every forest get_page_content returns, a block with has_children
\* had its children assigned exactly once and a block without never; the
\* consumers read children only of blocks with has_children, hence never
\* an unassigned children field.
C28_ChildrenAssignedOnce ==
    (op = "get_page_content" /\ status = "returned") =>
        LET blocks == PreOrder(result.items)
        IN  \A k \in DOMAIN blocks :
               /\ blocks[k].has_children => blocks[k].children_set = 1
               /\ ~blocks[k].has_children => blocks[k].children_set = 0
               /\ ReadsChildren(blocks[k]) => blocks[k].children_set > 0

\* a returned forest holding a block whose children were set to the empty
\* list at the depth limit, and a block without children
C28_Witness ==
    /\ op = "get_page_content" /\ status = "returned" /\ max_depth = 1
    /\ LET blocks == PreOrder(result.items)
       IN  /\ \E k \in DOMAIN blocks :
                 /\ blocks[k].has_children
                 /\ blocks[k].children_set = 1
                 /\ blocks[k].children = << >>
           /\ \E k \in DOMAIN blocks : ~blocks[k].has_children


\* ------------------------------------------- order of the service's steps
\* the methods of the repository calls made so far, in order
RepoMethods == [k \in DOMAIN repo_calls |-> repo_calls[k].method]

\* C29: get_page_with_content resolves the URL, then calls get_page, then
\* get_page_content, each at most once: no repository call is made before
\* the page reference is resolved or after its resolution failed,
\* get_page_content is not called before get_page nor after it failed, and
\* a (page, blocks) pair is returned only when all three succeeded.
C29_StepOrder ==
    svc_op = "get_page_with_content" =>
        /\ Len(parser_calls) <= 1
        /\ RepoMethods \in { << >>, << "get_page" >>,
                             << "get_page", "get_page_content" >> }
        /\ svc_pc = "start" => parser_calls = << >> /\ repo_calls = << >>
        /\ svc_pc = "get_page" => repo_calls = << >>
        /\ svc_pc = "get_page_content" =>
              RepoMethods = << "get_page" >> /\ svc_error = None
        /\ svc_pc = "raised" =>
              IF svc_error \in RepoErrors
              THEN RepoMethods # << >>
              ELSE /\ repo_calls = << >>
                   /\ parser_calls = << url_or_id >>
                   /\ ExtractIdFromUrl(url_or_id).raised
        /\ svc_pc = "returned" =>
              /\ RepoMethods = << "get_page", "get_page_content" >>
              /\ svc_error = None
              /\ ~PageRefOfUrlOrId(url_or_id).r.raised
              /\ svc_result = [kind |-> "pair", page |-> PageStub,
                               items |-> content]

\* get_page raised for a page given by URL: get_page_content was not called
C29_Witness ==
    /\ svc_op = "get_page_with_content" /\ svc_pc = "raised"
    /\ svc_error \in RepoErrors
    /\ parser_calls = << url_or_id >>
    /\ RepoMethods = << "get_page" >>


\* C30: an id that extract_id_from_url returned is never empty, so no
\* repository call made for a URL carries an empty id.
C30_ExtractedIdNonEmpty ==
    (svc_op \in SvcOps /\ parser_calls # << >>) =>
        /\ svc_pc \notin { "start", "raised" } => page_id # << >>
        /\ \A k \in DOMAIN repo_calls : repo_calls[k].id # << >>

=============================================================================
